---- MODULE Spec2Model ----
(***************************************************************************)
(* Roboc: the server-side game engine of a multiplayer maze game.          *)
(* Model of lib/labyrinthe.py (class Labyrinthe), lib/joueur.py,           *)
(* lib/regle.py, lib/element.py and lib/controle.py, driven by the main    *)
(* thread of serveur.py and the connections of interface_serveur.py.       *)
(*                                                                         *)
(* Strings of the program that are scanned character by character (map     *)
(* text, user input, commands) are sequences of one-character strings.     *)
(* Coordinates are pairs <<abscisse, ordonnee>>.                           *)
(***************************************************************************)
EXTENDS Integers, Sequences, FiniteSets, TLC

(***************************************************************************)
(* Bounds of the model.                                                    *)
(***************************************************************************)
\* largest number of commands pending, all players together
MaxCommandes == 2
\* how far from the rectangle of the grid, in cells, the players are followed
MaxHorsPlateau == 2
\* the most opponents an Etat is built with when regle.py is taken alone
MaxAdversaires == 2
\* the most messages one thread hands to Messagerie.ajouter
MaxMessages == 2
\* the most payloads one RequestHandler receives from its socket
MaxReceptions == 2
\* the most characters of a string given to extraire() when controle.py is taken alone
MaxSaisie == 4
\* the most lines and the most columns of a map when the board is built alone
MaxLignes == 2
MaxColonnes == 3
\* the most envelopes the main loop of the client takes from its Messagerie
MaxEnveloppes == 4

(***************************************************************************)
(* lib/element.py: the element classes and their mix-ins.                  *)
(***************************************************************************)
Decrypte == {"Porte", "Mur", "Sortie"}
Traversable == {"Porte", "Sortie", "Sol"}
Gagnable == {"Sortie"}
Demarrable == {"Sol"}
Murable == {"Porte"}
Percable == {"Mur"}
Transformable == Murable \cup Percable
obstacle_par_defaut == "Sol"
\* Murable.transformee = Mur, Percable.transformee = Porte
transformee(obstacle) == IF obstacle \in Murable THEN "Mur" ELSE "Porte"
\* Elements.decryptable: symbole_carte -> class
decryptable ==
    [symbole \in {".", "O", "U", " "} |->
        CASE symbole = "." -> "Porte"
          [] symbole = "O" -> "Mur"
          [] symbole = "U" -> "Sortie"
          [] OTHER -> "Sol"]
description(obstacle) ==
    CASE obstacle = "Porte" -> "la porte"
      [] obstacle = "Mur" -> "le mur"
      [] obstacle = "Sortie" -> "la sortie"
      [] OTHER -> "le terrain"
\* str.upper() on the characters a map or an input may hold
upper(caractere) ==
    CASE caractere = "o" -> "O"
      [] caractere = "u" -> "U"
      [] OTHER -> caractere

(***************************************************************************)
(* lib/controle.py: the controls registered at import.                     *)
(***************************************************************************)
touches_mouvement == <<"N", "S", "E", "O">>
touches_transformation == <<"M", "P">>
chiffres == {"0", "1", "2", "3", "4", "5", "6", "7", "8", "9"}
Range(s) == {s[i] : i \in 1..Len(s)}
\* Mouvement(touche, direction).action()
direction_de(touche) ==
    CASE touche = "N" -> <<0, -1>>
      [] touche = "S" -> <<0, 1>>
      [] touche = "E" -> <<1, 0>>
      [] touche = "O" -> <<-1, 0>>
directions == {direction_de(t) : t \in Range(touches_mouvement)}
\* Transformation(touche, transformer).action(): "None" stands for no transformation
transformer_de(touche) == IF touche = "M" THEN "Murable" ELSE "Percable"
famille(transformation) == IF transformation = "Murable" THEN Murable ELSE Percable
description_transformation(transformation) ==
    IF transformation = "Murable" THEN "murer" ELSE "percer"
\* Controle.descriptions: one line of help per registered control
descriptions == touches_mouvement \o touches_transformation

valeur_chiffre(c) ==
    CASE c = "0" -> 0 [] c = "1" -> 1 [] c = "2" -> 2 [] c = "3" -> 3 [] c = "4" -> 4
      [] c = "5" -> 5 [] c = "6" -> 6 [] c = "7" -> 7 [] c = "8" -> 8 [] OTHER -> 9
\* int(repetition) of a string of digits
RECURSIVE entier(_)
entier(rep) ==
    IF rep = <<>> THEN 0
    ELSE 10 * entier(SubSeq(rep, 1, Len(rep) - 1)) + valeur_chiffre(rep[Len(rep)])
\* the longest run of digits at the head of s: the group ([0-9]*)
RECURSIVE prefixe_chiffres(_)
prefixe_chiffres(s) ==
    IF s # <<>> /\ s[1] \in chiffres
    THEN <<s[1]>> \o prefixe_chiffres(Tail(s))
    ELSE <<>>
repeter(x, n) == [i \in 1..n |-> x]
\* variant: the number after a movement is not looked at
RECURSIVE extraire_sans_repetition(_)
extraire_sans_repetition(saisie) ==
    IF saisie = <<>> THEN <<>>
    ELSE IF saisie[1] \in Range(touches_mouvement)
    THEN <<(<<saisie[1]>>)>>
         \o extraire_sans_repetition(
                SubSeq(saisie, 2 + Len(prefixe_chiffres(Tail(saisie))), Len(saisie)))
    ELSE IF /\ saisie[1] \in Range(touches_transformation)
            /\ Len(saisie) >= 2
            /\ saisie[2] \in Range(touches_mouvement)
    THEN <<(<<saisie[1], saisie[2]>>)>>
         \o extraire_sans_repetition(SubSeq(saisie, 3, Len(saisie)))
    ELSE extraire_sans_repetition(Tail(saisie))
\* variant: the first character that starts no match ends the extraction
RECURSIVE extraire_sans_saut(_)
extraire_sans_saut(saisie) ==
    IF saisie = <<>> THEN <<>>
    ELSE IF saisie[1] \in Range(touches_mouvement)
    THEN LET repetition == prefixe_chiffres(Tail(saisie))
             reste == SubSeq(saisie, 2 + Len(repetition), Len(saisie))
         IN  IF repetition # <<>>
             THEN repeter(<<saisie[1]>>, entier(repetition)) \o extraire_sans_saut(reste)
             ELSE <<(<<saisie[1]>>)>> \o extraire_sans_saut(reste)
    ELSE IF /\ saisie[1] \in Range(touches_transformation)
            /\ Len(saisie) >= 2
            /\ saisie[2] \in Range(touches_mouvement)
    THEN <<(<<saisie[1], saisie[2]>>)>> \o extraire_sans_saut(SubSeq(saisie, 3, Len(saisie)))
    ELSE <<>>
\* extraction_controle_compile.findall(saisie) and the loop over its matches:
\* at each position the movement alternative is tried first, then the
\* transformation; a character that starts no match is skipped.
RECURSIVE extraire(_)
extraire(saisie) ==
    IF saisie = <<>> THEN <<>>
    ELSE IF saisie[1] \in Range(touches_mouvement)
    THEN LET repetition == prefixe_chiffres(Tail(saisie))
             reste == SubSeq(saisie, 2 + Len(repetition), Len(saisie))
         IN  IF repetition # <<>>
             THEN repeter(<<saisie[1]>>, entier(repetition)) \o extraire(reste)
             ELSE <<(<<saisie[1]>>)>> \o extraire(reste)
    ELSE IF /\ saisie[1] \in Range(touches_transformation)
            /\ Len(saisie) >= 2
            /\ saisie[2] \in Range(touches_mouvement)
    THEN <<(<<saisie[1], saisie[2]>>)>> \o extraire(SubSeq(saisie, 3, Len(saisie)))
    ELSE extraire(Tail(saisie))
\* obtenir_controle(commande) = (direction, transformation)
obtenir_controle(commande) ==
    <<direction_de(commande[Len(commande)]),
      IF Len(commande) = 2 THEN transformer_de(commande[1]) ELSE "None">>

(***************************************************************************)
(* lib/labyrinthe.py: construction of the board.                           *)
(***************************************************************************)
\* the map the server was started with, one sequence of characters per line
Carte == << <<"U", " ", " ", " ", "O">> >>
nom_labyrinthe == "carte"

\* enumerate(chaine.splitlines()) x enumerate(ligne): the cells of the map
cases(chaine) ==
    UNION {{<<x, y>> : x \in 0..(Len(chaine[y + 1]) - 1)} : y \in 0..(Len(chaine) - 1)}
decoder(caractere) ==
    IF upper(caractere) \in DOMAIN decryptable
    THEN decryptable[upper(caractere)]
    ELSE obstacle_par_defaut
\* _creer_labyrinthe: the grid holds the Decrypte elements only
grille_de(chaine) ==
    [c \in {k \in cases(chaine) : decoder(chaine[k[2] + 1][k[1] + 1]) \in Decrypte}
        |-> decoder(chaine[c[2] + 1][c[1] + 1])]
sorties_de(chaine) ==
    {k \in cases(chaine) : decoder(chaine[k[2] + 1][k[1] + 1]) \in Gagnable}
\* grille[coordonnees], or obstacle_par_defaut on KeyError
terrain_de(g, coordonnees) ==
    IF coordonnees \in DOMAIN g THEN g[coordonnees] ELSE obstacle_par_defaut

Min(S) == CHOOSE x \in S : \A y \in S : x <= y
Max(S) == CHOOSE x \in S : \A y \in S : x >= y
\* _dimensionner: the two extreme corners of the board
dimensionner(liste_coordonnees) ==
    IF liste_coordonnees # {}
    THEN << <<Min({c[1] : c \in liste_coordonnees}), Min({c[2] : c \in liste_coordonnees})>>,
            <<Max({c[1] : c \in liste_coordonnees}), Max({c[2] : c \in liste_coordonnees})>> >>
    ELSE << <<0, 0>>, <<0, 0>> >>
dans_plateau(dims, c) ==
    /\ dims[1][1] <= c[1] /\ c[1] <= dims[2][1]
    /\ dims[1][2] <= c[2] /\ c[2] <= dims[2][2]

\* variant: every cell that can be entered is one step further
increment_unitaire(terrain) ==
    IF terrain \in Demarrable THEN 1
    ELSE IF terrain \in Traversable THEN 1
    ELSE IF terrain \in Transformable /\ transformee(terrain) \in Traversable THEN 1
    ELSE 0
\* the distance _determiner_departs gives a cell found from distance d,
\* 0 when the cell is a dead end
increment(terrain) ==
    IF terrain \in Demarrable THEN 1
    ELSE IF terrain \in Traversable THEN 1
    ELSE IF terrain \in Transformable /\ transformee(terrain) \in Traversable THEN 2
    ELSE 0
\* variant: every cell that is reached is kept as a start position
RECURSIVE bandes_departs_atteintes(_, _, _, _, _)
bandes_departs_atteintes(g, dims, liste_positions, distance, bandes) ==
    IF ~\E p \in DOMAIN liste_positions : liste_positions[p] >= distance
    THEN bandes
    ELSE LET positions_testees == {p \in DOMAIN liste_positions : liste_positions[p] = distance}
             voisines == {<<p[1] + d[1], p[2] + d[2]>> : p \in positions_testees, d \in directions}
             nouvelles == {c \in voisines : /\ dans_plateau(dims, c)
                                            /\ c \notin DOMAIN liste_positions
                                            /\ increment(terrain_de(g, c)) > 0}
             suite == [c \in DOMAIN liste_positions \cup nouvelles |->
                          IF c \in DOMAIN liste_positions THEN liste_positions[c]
                          ELSE distance + increment(terrain_de(g, c))]
         IN  bandes_departs_atteintes(g, dims, suite, distance + 1,
                            IF nouvelles # {} THEN Append(bandes, nouvelles) ELSE bandes)
\* _determiner_departs: the start positions found at each distance, in order
\* of distance (the bands that shuffle() then permutes)
RECURSIVE bandes_departs(_, _, _, _, _)
bandes_departs(g, dims, liste_positions, distance, bandes) ==
    IF ~\E p \in DOMAIN liste_positions : liste_positions[p] >= distance
    THEN bandes
    ELSE LET positions_testees == {p \in DOMAIN liste_positions : liste_positions[p] = distance}
             voisines == {<<p[1] + d[1], p[2] + d[2]>> : p \in positions_testees, d \in directions}
             nouvelles == {c \in voisines : /\ dans_plateau(dims, c)
                                            /\ c \notin DOMAIN liste_positions
                                            /\ increment(terrain_de(g, c)) > 0}
             departs_trouves == {c \in nouvelles : terrain_de(g, c) \in Demarrable}
             suite == [c \in DOMAIN liste_positions \cup nouvelles |->
                          IF c \in DOMAIN liste_positions THEN liste_positions[c]
                          ELSE distance + increment(terrain_de(g, c))]
         IN  bandes_departs(g, dims, suite, distance + 1,
                            IF departs_trouves # {} THEN Append(bandes, departs_trouves) ELSE bandes)
determiner_bandes(g, sorties) ==
    bandes_departs(g, dimensionner(DOMAIN g), [s \in sorties |-> 0], 0, <<>>)
\* variant: draws with replacement, as many as the set has elements
Tirages_avec_remise(S) == [1..Cardinality(S) -> S]
\* every order of a finite set: the outcomes of shuffle() and sample(l, len(l))
Permutations_de(S) ==
    {s \in [1..Cardinality(S) -> S] : \A i, j \in 1..Cardinality(S) : i # j => s[i] # s[j]}
RECURSIVE departs_possibles(_)
departs_possibles(bandes) ==
    IF bandes = <<>> THEN {<<>>}
    ELSE {tete \o queue : tete \in Permutations_de(bandes[1]),
                          queue \in departs_possibles(Tail(bandes))}

(***************************************************************************)
(* The state: the Labyrinthe and the Joueur objects it holds, the main     *)
(* thread of serveur.py that owns it, and the connections.                 *)
(* A Joueur object is a positive number, 0 stands for None.                *)
(***************************************************************************)
VARIABLES
    mode,                \* debut_de_partie, jeu_en_cours or fin_de_partie
    grille,              \* coordinates -> element class (Decrypte elements only)
    departs,             \* start positions ranked by distance to an exit
    dict_client_joueur,  \* insertion-ordered dict: sequence of [cle, valeur]
    liste_joueurs,       \* the turn order, a sequence of Joueur objects
    joueurs,             \* the Joueur objects: object -> its fields
    joueur_courant,      \* the Joueur popped by jouer(), or 0
    vainqueur,           \* the winner, or 0
    datagrammes,         \* the outbound datagrams not yet fetched
    pc,                  \* where the main thread of the server is
    connexion_autorisee, \* ThreadedTCPServer.connexion_autorisee
    connexion,           \* how far each connection is in its life
    issue,               \* how the last iteration of jouer() ended
    retour,              \* what the last call of _ajouter_joueur returned (0: None)
    erreur,              \* the exception that ended the main thread, "" when none
    emetteur_courant,    \* emetteur of the first loop of main() while its envelope is handled (the
                         \* client of ajouter_joueur when the board is called alone), "" otherwise
    expedies,            \* what the first loop of main() has just sent over the sockets
    acceptees,           \* history: for each player whose command was carried out,
                         \* the players whose commands were carried out since
    tirages,             \* history: the two samples demarrer() has just drawn
    etat_verifie,        \* regle.py taken alone: the Etat given to verifier_regles
    exception_levee,     \* regle.py taken alone: what verifier_regles did with it
    messages,            \* Messagerie.messages
    verrou,              \* the thread that holds the lock of nouveau_message, or "libre"
    dormeurs,            \* the threads in nouveau_message.wait() that nobody has notified
    fil,                 \* where each thread that uses the Messagerie is
    a_envoyer,           \* what each producer has still to hand to ajouter()
    envoyes,             \* history: the messages appended, in the order of the appends
    recus,               \* history: what obtenir() returned, in order
    receptions,         \* what recevoir() has given to each RequestHandler so far
    compteur,            \* what next(compter) gives next
    nom_attribue,       \* RequestHandler.nom_joueur of each RequestHandler thread
    saisie_client,       \* controle.py taken alone: the string given to extraire()
    commandes_extraites, \* controle.py taken alone: what extraire() returned, once it has
    carte_lue,           \* the map given to Labyrinthe() when the board is built alone
    departs_determines,  \* <<>>, then the departs _determiner_departs has left
    schema_parametre,    \* ValidateurTexte.schema_parametre of the client
    validation_schema,   \* ValidateurTexte.validation_schema, "" while it is not set
    validation_erreur,   \* ValidateurTexte.validation_erreur
    mode_validateur,     \* ValidateurTexte.mode
    valide,              \* the variable valide of client.py, "non_lie" while it is not bound
    transmis,            \* what the client has sent to the server
    imprimes,            \* what the client has printed
    traitees,            \* the envelopes the main loop of the client has taken
    etat_client,         \* boucle, sorti (break) or plante (exception)
    iterations,          \* turns of the while loop of jouer() since the call began
    en_attente,          \* commands that waited when jouer() was called
    effaces              \* history: the classes whose effacer() was called

plateau == <<mode, grille, departs, dict_client_joueur, liste_joueurs, joueurs,
             joueur_courant, vainqueur, datagrammes>>
serveur == <<pc, connexion_autorisee, connexion, issue, retour, erreur, acceptees, tirages,
             emetteur_courant, expedies>>
regles == <<etat_verifie, exception_levee>>
messagerie == <<messages, verrou, dormeurs, fil, a_envoyer, envoyes, recus>>
ecoute == <<receptions>>
noms == <<compteur, nom_attribue>>
extraction == <<saisie_client, commandes_extraites>>
cartographie == <<carte_lue, departs_determines>>
client == <<schema_parametre, validation_schema, validation_erreur, mode_validateur, valide,
            transmis, imprimes, traitees, etat_client>>
boucle == <<iterations, en_attente>>
remises == <<effaces>>
vars == <<mode, grille, departs, dict_client_joueur, liste_joueurs, joueurs,
          joueur_courant, vainqueur, datagrammes, pc, connexion_autorisee,
          connexion, issue, retour, erreur, acceptees, tirages, emetteur_courant,
          expedies, etat_verifie,
          exception_levee,
          messages, verrou, dormeurs, fil, a_envoyer, envoyes, recus,
          receptions,
          compteur, nom_attribue,
          saisie_client, commandes_extraites,
          carte_lue, departs_determines,
          schema_parametre, validation_schema, validation_erreur, mode_validateur, valide,
          transmis, imprimes, traitees, etat_client,
          iterations, en_attente,
          effaces>>

debut_de_partie == 0
jeu_en_cours == 1
fin_de_partie == 2

\* the connections, in the order in which the thread Serveur takes them
\* (get_request); each one gets a RequestHandler thread of its own, and these
\* threads run in any order
Identifiants == <<"c1", "c2", "c3">>
Clients == Range(Identifiants)
rang(identifiant_client) == CHOOSE i \in 1..Len(Identifiants) : Identifiants[i] = identifiant_client
\* "Joueur-" + str(n), for the n that next(compter) has returned
nom_joueur(n) ==
    CASE n = 1 -> "Joueur-1"
      [] n = 2 -> "Joueur-2"
      [] n = 3 -> "Joueur-3"
      [] OTHER -> "Joueur-4"
touche_commencer == <<"C">>
\* the inputs a client may send as a command: the start key and moves
Saisies == {touche_commencer, <<"E">>, <<"O">>, <<"O", "2">>}
\* ... and with the command that pierces the wall to the east
SaisiesPercer == Saisies \cup {<<"P", "E">>}
\* the two connections that come first
DeuxConnexions == {Identifiants[1], Identifiants[2]}

(***************************************************************************)
(* Helpers on the insertion-ordered dict and on the Joueur objects.        *)
(***************************************************************************)
cles(d) == {d[i].cle : i \in 1..Len(d)}
valeurs(d) == {d[i].valeur : i \in 1..Len(d)}
\* d[cle]
joueur_de(d, cle) == d[CHOOSE i \in 1..Len(d) : d[i].cle = cle].valeur
\* d[cle] = valeur: an existing key keeps its place, a new key goes last
affecter(d, cle, valeur) ==
    IF cle \in cles(d)
    THEN [i \in 1..Len(d) |-> IF d[i].cle = cle THEN [cle |-> cle, valeur |-> valeur] ELSE d[i]]
    ELSE Append(d, [cle |-> cle, valeur |-> valeur])
\* d.pop(cle)
supprimer(d, cle) == SelectSeq(d, LAMBDA e : e.cle # cle)
\* l.remove(x): removes the first occurrence of x
retirer(l, x) ==
    LET i == CHOOSE k \in 1..Len(l) : l[k] = x /\ \A m \in 1..(k - 1) : l[m] # x
    IN  SubSeq(l, 1, i - 1) \o SubSeq(l, i + 1, Len(l))
\* Joueur(identifiant_client, nom)
Joueur(identifiant_client, nom) ==
    [identifiant_client |-> identifiant_client, nom |-> nom,
     coordonnees |-> <<0, 0>>, commandes |-> <<>>]
\* the object Joueur(identifiant_client, nom) makes: it bears the rank of the
\* connection, and when an object made for the same connection is still
\* referenced, the first free rank a number of connections further
nouvel_objet(identifiant_client) ==
    LET n == Len(Identifiants)
        libre(k) == (rang(identifiant_client) + k * n) \notin DOMAIN joueurs
        k == CHOOSE i \in 0..Cardinality(DOMAIN joueurs) : libre(i) /\ \A m \in 0..(i - 1) : ~libre(m)
    IN  rang(identifiant_client) + k * n
\* the objects still referenced; the others are reclaimed
ramasser(js, l, d, v, jc) ==
    [j \in (Range(l) \cup valeurs(d) \cup {v, jc}) \cap DOMAIN js |-> js[j]]

(***************************************************************************)
(* The datagrams (identifiant_client, categorie, message). A message is a  *)
(* sequence of strings; the text of the board is not modelled.             *)
(***************************************************************************)
\* afficher_plateau: the board, then an empty line, for every client of the dict
afficher_plateau(d) ==
    [i \in 1..(2 * Len(d)) |->
        IF i % 2 = 1
        THEN <<d[(i + 1) \div 2].cle, "affichage", <<"plateau">> >>
        ELSE <<d[(i + 1) \div 2].cle, "affichage", <<"">> >>]
\* variant of a_qui_de_jouer: the player named is the one who has just played
a_qui_de_jouer_sortant(m, d, l, js) ==
    IF m < fin_de_partie
    THEN [i \in 1..Len(d) |->
            IF l[Len(l)] = d[i].valeur
            THEN <<d[i].cle, "affichage", <<"C'est a Vous de jouer">> >>
            ELSE <<d[i].cle, "affichage", <<"C'est a ", js[l[Len(l)]].nom, " de jouer">> >>]
    ELSE <<>>
\* a_qui_de_jouer: whose turn it is, for every client of the dict
a_qui_de_jouer(m, d, l, js) ==
    IF m < fin_de_partie
    THEN [i \in 1..Len(d) |->
            IF l[1] = d[i].valeur
            THEN <<d[i].cle, "affichage", <<"C'est a Vous de jouer">> >>
            ELSE <<d[i].cle, "affichage", <<"C'est a ", js[l[1]].nom, " de jouer">> >>]
    ELSE <<>>
\* ' '.join(commandes)
RECURSIVE joindre(_)
joindre(commandes) ==
    IF commandes = <<>> THEN <<>>
    ELSE IF Len(commandes) = 1 THEN commandes[1]
    ELSE commandes[1] \o <<" ">> \o joindre(Tail(commandes))

RECURSIVE somme(_, _)
somme(f, S) ==
    IF S = {} THEN 0
    ELSE LET x == CHOOSE y \in S : TRUE IN f[x] + somme(f, S \ {x})
\* the commands that wait, all players together
en_attente_de(js) == somme([j \in DOMAIN js |-> Len(js[j].commandes)], DOMAIN js)
\* the model follows the game as long as at most MaxCommandes commands wait
a_portee(js) == en_attente_de(js) <= MaxCommandes
\* ... and as long as no player is more than MaxHorsPlateau cells away from
\* the rectangle of the grid (beyond it every cell is obstacle_par_defaut)
sur_le_terrain(js) ==
    LET dims == dimensionner(DOMAIN grille)
    IN  \A j \in DOMAIN js :
           /\ js[j].coordonnees[1] >= dims[1][1] - MaxHorsPlateau
           /\ js[j].coordonnees[1] <= dims[2][1] + MaxHorsPlateau
           /\ js[j].coordonnees[2] >= dims[1][2] - MaxHorsPlateau
           /\ js[j].coordonnees[2] <= dims[2][2] + MaxHorsPlateau

(***************************************************************************)
(* lib/labyrinthe.py: the operations of the board. Each one says what the  *)
(* call does to the board and how it ends (retour, erreur).                *)
(***************************************************************************)
\* variants of est_ouvert(): one seat too many, and no limit at all
est_ouvert_large == Len(liste_joueurs) <= Len(departs)
est_ouvert_toujours == TRUE
\* est_ouvert()
est_ouvert == Len(liste_joueurs) < Len(departs)

\* variant of ajouter_joueur: the mode is not looked at
ajouter_joueur_sans_mode(identifiant_client, nom) ==
    /\ IF est_ouvert
       THEN LET joueur == nouvel_objet(identifiant_client)
            IN  /\ dict_client_joueur' = affecter(dict_client_joueur, identifiant_client, joueur)
                /\ liste_joueurs' = Append(liste_joueurs, joueur)
                /\ joueurs' = ramasser((joueur :> Joueur(identifiant_client, nom)) @@ joueurs,
                                       liste_joueurs', dict_client_joueur', vainqueur, joueur_courant)
                /\ retour' = joueur
                /\ datagrammes' = datagrammes \o
                       << <<identifiant_client, "affichage", <<"">> >>,
                          <<identifiant_client, "affichage", <<"Bienvenue, ", nom, ".">> >>,
                          <<identifiant_client, "affichage",
                            <<"Vous jouez sur le labyrinthe '", nom_labyrinthe, "'">> >>,
                          <<identifiant_client, "affichage", <<"plateau">> >> >>
       ELSE /\ retour' = 0
            /\ UNCHANGED <<dict_client_joueur, liste_joueurs, joueurs, datagrammes>>
    /\ erreur' = ""
    /\ UNCHANGED <<mode, grille, departs, joueur_courant, vainqueur>>
\* ajouter_joueur(identifiant_client, nom), with _ajouter_joueur
ajouter_joueur(identifiant_client, nom) ==
    /\ IF mode = debut_de_partie /\ est_ouvert
       THEN LET joueur == nouvel_objet(identifiant_client)
            IN  /\ dict_client_joueur' = affecter(dict_client_joueur, identifiant_client, joueur)
                /\ liste_joueurs' = Append(liste_joueurs, joueur)
                /\ joueurs' = ramasser((joueur :> Joueur(identifiant_client, nom)) @@ joueurs,
                                       liste_joueurs', dict_client_joueur', vainqueur, joueur_courant)
                /\ retour' = joueur
                /\ datagrammes' = datagrammes \o
                       << <<identifiant_client, "affichage", <<"">> >>,
                          <<identifiant_client, "affichage", <<"Bienvenue, ", nom, ".">> >>,
                          <<identifiant_client, "affichage",
                            <<"Vous jouez sur le labyrinthe '", nom_labyrinthe, "'">> >>,
                          <<identifiant_client, "affichage", <<"plateau">> >> >>
       ELSE /\ retour' = 0
            /\ UNCHANGED <<dict_client_joueur, liste_joueurs, joueurs, datagrammes>>
    /\ erreur' = ""
    /\ UNCHANGED <<mode, grille, departs, joueur_courant, vainqueur>>

\* variants of _effacer_joueur: the game reopens when one player is left, and
\* the last player is not declared winner
mode_apres_depart_rouvre(l) ==
    IF mode >= jeu_en_cours /\ Len(l) <= 1 THEN debut_de_partie ELSE mode
vainqueur_apres_depart_sans(l) == vainqueur
\* _effacer_joueur: the mode and the winner once joueur has left the list l
mode_apres_depart(l) ==
    IF mode >= jeu_en_cours /\ Len(l) <= 1 THEN fin_de_partie ELSE mode
vainqueur_apres_depart(l) ==
    IF mode >= jeu_en_cours /\ Len(l) <= 1 /\ l # <<>> THEN l[1] ELSE vainqueur

\* variant of effacer_joueur: the call does nothing and raises nothing
effacer_joueur_silencieux(identifiant_client) ==
    /\ erreur' = ""
    /\ retour' = 0
    /\ UNCHANGED <<mode, grille, departs, dict_client_joueur, liste_joueurs, joueurs,
                   joueur_courant, vainqueur, datagrammes>>
\* effacer_joueur(identifiant_client), with _effacer_joueur
effacer_joueur(identifiant_client) ==
    /\ IF identifiant_client \notin cles(dict_client_joueur)
       THEN /\ erreur' = "KeyError"
            /\ UNCHANGED <<mode, dict_client_joueur, liste_joueurs, joueurs, vainqueur, datagrammes>>
       ELSE LET joueur == joueur_de(dict_client_joueur, identifiant_client)
                d == supprimer(dict_client_joueur, identifiant_client)
                l == retirer(liste_joueurs, joueur)
                m == mode_apres_depart(l)
                v == vainqueur_apres_depart(l)
            IN  /\ erreur' = ""
                /\ dict_client_joueur' = d
                /\ liste_joueurs' = l
                /\ mode' = m
                /\ vainqueur' = v
                /\ joueurs' = ramasser(joueurs, l, d, v, joueur_courant)
                /\ datagrammes' =
                       IF m >= jeu_en_cours
                       THEN datagrammes
                            \o [i \in 1..Len(d) |->
                                   <<d[i].cle, "affichage", <<joueurs[joueur].nom, " a quitte la partie.">> >>]
                            \o afficher_plateau(d)
                            \o a_qui_de_jouer(m, d, l, joueurs)
                       ELSE datagrammes
    /\ retour' = 0
    /\ UNCHANGED <<grille, departs, joueur_courant>>

\* variant of demarrer(): the second sample gives the turn order as well
demarrer_second_tirage ==
    /\ \E indice \in 0..(Len(departs) - Len(liste_joueurs)),
          ordre \in Permutations_de(Range(liste_joueurs)),
          attribution \in Permutations_de(Range(liste_joueurs)) :
          LET place(j) == CHOOSE i \in 1..Len(attribution) : attribution[i] = j
              d == dict_client_joueur
              envois(e) ==
                  << <<e.cle, "validation_schema", <<"validation_controle">> >>,
                     <<e.cle, "validation_erreur", <<"Cette saisie n'est pas valide !">> >>,
                     <<e.cle, "affichage",
                       <<"La partie commence! Vous etes ", ToString(Len(ordre)), " joueurs">> >> >>
                  \o [k \in 1..Len(descriptions) |-> <<e.cle, "affichage", <<descriptions[k]>> >>]
              n == 3 + Len(descriptions)
          IN  /\ liste_joueurs' = attribution
              /\ tirages' = <<ordre, attribution>>
              /\ joueurs' = [j \in DOMAIN joueurs |->
                                IF j \in Range(attribution)
                                THEN [joueurs[j] EXCEPT !.coordonnees = departs[indice + place(j)]]
                                ELSE joueurs[j]]
              /\ datagrammes' = datagrammes
                     \o [i \in 1..(n * Len(d)) |-> envois(d[((i - 1) \div n) + 1])[((i - 1) % n) + 1]]
                     \o afficher_plateau(d)
                     \o a_qui_de_jouer(jeu_en_cours, d, attribution, joueurs)
    /\ mode' = jeu_en_cours
    /\ erreur' = ""
    /\ retour' = 0
    /\ UNCHANGED <<grille, departs, dict_client_joueur, joueur_courant, vainqueur>>
\* demarrer(): randint gives indice, the first sample() the turn order, the
\* second sample() the order in which the start positions are handed out
demarrer ==
    /\ \E indice \in 0..(Len(departs) - Len(liste_joueurs)),
          ordre \in Permutations_de(Range(liste_joueurs)),
          attribution \in Permutations_de(Range(liste_joueurs)) :
          LET place(j) == CHOOSE i \in 1..Len(attribution) : attribution[i] = j
              d == dict_client_joueur
              envois(e) ==
                  << <<e.cle, "validation_schema", <<"validation_controle">> >>,
                     <<e.cle, "validation_erreur", <<"Cette saisie n'est pas valide !">> >>,
                     <<e.cle, "affichage",
                       <<"La partie commence! Vous etes ", ToString(Len(ordre)), " joueurs">> >> >>
                  \o [k \in 1..Len(descriptions) |-> <<e.cle, "affichage", <<descriptions[k]>> >>]
              n == 3 + Len(descriptions)
          IN  /\ liste_joueurs' = ordre
              /\ tirages' = <<ordre, attribution>>
              /\ joueurs' = [j \in DOMAIN joueurs |->
                                IF j \in Range(attribution)
                                THEN [joueurs[j] EXCEPT !.coordonnees = departs[indice + place(j)]]
                                ELSE joueurs[j]]
              /\ datagrammes' = datagrammes
                     \o [i \in 1..(n * Len(d)) |-> envois(d[((i - 1) \div n) + 1])[((i - 1) % n) + 1]]
                     \o afficher_plateau(d)
                     \o a_qui_de_jouer(jeu_en_cours, d, ordre, joueurs)
    /\ mode' = jeu_en_cours
    /\ erreur' = ""
    /\ retour' = 0
    /\ UNCHANGED <<grille, departs, dict_client_joueur, joueur_courant, vainqueur>>

\* variant: the new commands go before the commands that wait
ajouter_commande_en_tete(identifiant_client, saisie) ==
    /\ LET commandes == extraire(saisie)
       IN  IF identifiant_client \notin cles(dict_client_joueur)
           THEN /\ erreur' = "KeyError"
                /\ UNCHANGED <<joueurs, datagrammes>>
           ELSE LET joueur == joueur_de(dict_client_joueur, identifiant_client)
                    file == commandes \o joueurs[joueur].commandes
                IN  /\ erreur' = ""
                    /\ joueurs' = [joueurs EXCEPT ![joueur].commandes = file]
                    /\ datagrammes' =
                           IF file # <<>>
                           THEN Append(datagrammes,
                                       <<identifiant_client, "affichage",
                                         <<"Commandes :">> \o joindre(commandes)>>)
                           ELSE datagrammes
    /\ retour' = 0
    /\ UNCHANGED <<mode, grille, departs, dict_client_joueur, liste_joueurs,
                   joueur_courant, vainqueur>>
\* ajouter_commande(identifiant_client, saisie)
ajouter_commande(identifiant_client, saisie) ==
    /\ LET commandes == extraire(saisie)
       IN  IF identifiant_client \notin cles(dict_client_joueur)
           THEN /\ erreur' = "KeyError"
                /\ UNCHANGED <<joueurs, datagrammes>>
           ELSE LET joueur == joueur_de(dict_client_joueur, identifiant_client)
                    file == joueurs[joueur].commandes \o commandes
                IN  /\ erreur' = ""
                    /\ joueurs' = [joueurs EXCEPT ![joueur].commandes = file]
                    /\ datagrammes' =
                           IF file # <<>>
                           THEN Append(datagrammes,
                                       <<identifiant_client, "affichage",
                                         <<"Commandes :">> \o joindre(commandes)>>)
                           ELSE datagrammes
    /\ retour' = 0
    /\ UNCHANGED <<mode, grille, departs, dict_client_joueur, liste_joueurs,
                   joueur_courant, vainqueur>>

(***************************************************************************)
(* lib/regle.py: the state a rule is given, the rules and their check.     *)
(***************************************************************************)
\* Etat(direction, transformation, grille, joueur, adversaires)
Etat(direction, transformation, g, joueur, adversaires) ==
    LET coordonnees_obstacle == <<joueur.coordonnees[1] + direction[1],
                                  joueur.coordonnees[2] + direction[2]>>
    IN  [coordonnees_obstacle |-> coordonnees_obstacle,
         obstacle |-> terrain_de(g, coordonnees_obstacle),
         transformation |-> transformation,
         coordonnees_adversaires |-> adversaires]
\* what a rule does: it returns (None) or raises HorsRegles or PartieGagnee
Passe == [exception |-> "None", message |-> <<>>]
HorsRegles(message) == [exception |-> "HorsRegles", message |-> message]
PartieGagnee == [exception |-> "PartieGagnee", message |-> <<>>]
\* verifier_regles has not been called yet
sans_verdict == [exception |-> "", message |-> <<>>]
\* variants: every element can be walked on, and no opponent is ever met
traverser_tout(etat) == Passe
rencontrer_personne(etat) == Passe
\* variant: the opponents are looked for when the player moves only
rencontrer_au_deplacement(etat) ==
    IF /\ etat.transformation = "None"
       /\ \E i \in 1..Len(etat.coordonnees_adversaires) :
              etat.coordonnees_obstacle = etat.coordonnees_adversaires[i]
    THEN HorsRegles(<<"Un joueur occupe deja ", description(etat.obstacle), " !">>)
    ELSE Passe
traverser_un_obstacle(etat) ==
    IF etat.obstacle \notin Traversable
    THEN HorsRegles(<<"Vous ne pouvez pas traverser ", description(etat.obstacle), " !">>)
    ELSE Passe
rencontrer_un_adversaire(etat) ==
    IF \E i \in 1..Len(etat.coordonnees_adversaires) :
           etat.coordonnees_obstacle = etat.coordonnees_adversaires[i]
    THEN HorsRegles(<<"Un joueur occupe deja ", description(etat.obstacle), " !">>)
    ELSE Passe
\* variant: every element that can be walked on wins the game
gagner_partout(etat) ==
    IF etat.obstacle \in Traversable THEN PartieGagnee ELSE Passe
gagner_une_partie(etat) ==
    IF etat.obstacle \in Gagnable THEN PartieGagnee ELSE Passe
transformer_un_obstacle(etat) ==
    IF etat.transformation # "None" /\ etat.obstacle \notin famille(etat.transformation)
    THEN HorsRegles(<<"Vous ne pouvez pas ", description_transformation(etat.transformation),
                      " ", description(etat.obstacle), " !">>)
    ELSE Passe
\* the two sets of rules the decorators fill
regles_mouvement == {"traverser_un_obstacle", "rencontrer_un_adversaire", "gagner_une_partie"}
regles_transformation == {"rencontrer_un_adversaire", "transformer_un_obstacle"}
appliquer(regle, etat) ==
    CASE regle = "traverser_un_obstacle" -> traverser_un_obstacle(etat)
      [] regle = "rencontrer_un_adversaire" -> rencontrer_un_adversaire(etat)
      [] regle = "gagner_une_partie" -> gagner_une_partie(etat)
      [] OTHER -> transformer_un_obstacle(etat)
\* for regle in regles: regle(etat), the first exception ends the loop
RECURSIVE appliquer_regles(_, _)
appliquer_regles(ordre, etat) ==
    IF ordre = <<>> THEN Passe
    ELSE IF appliquer(ordre[1], etat).exception # "None" THEN appliquer(ordre[1], etat)
    ELSE appliquer_regles(Tail(ordre), etat)
\* variant: the rules of a movement are used whatever the control
verifier_regles_mouvement(etat) ==
    {appliquer_regles(ordre, etat) : ordre \in Permutations_de(regles_mouvement)}
\* verifier_regles(etat): every result the iteration order of the set allows
verifier_regles(etat) ==
    {appliquer_regles(ordre, etat) :
        ordre \in Permutations_de(IF etat.transformation # "None"
                                  THEN regles_transformation ELSE regles_mouvement)}

(***************************************************************************)
(* The history of the turns, kept beside the program without acting on it. *)
(***************************************************************************)
\* the command of courant is carried out: he starts a new count and is
\* written down in the count of every player who has played before
noter(h, courant) ==
    [j \in DOMAIN h \cup {courant} |-> IF j = courant THEN <<>> ELSE Append(h[j], courant)]
\* a player leaves: he is struck off
oublier(h, joueur) ==
    [j \in DOMAIN h \ {joueur} |-> SelectSeq(h[j], LAMBDA x : x # joueur)]

(***************************************************************************)
(* lib/labyrinthe.py, jouer(): one action per turn of its while loop.      *)
(***************************************************************************)
\* variant: the transformation always empties the element
transformer_efface(g, etat) ==
    [c \in DOMAIN g \ {etat.coordonnees_obstacle} |-> g[c]]
\* the grid once the transformation of instantane is carried out
transformer(g, etat) ==
    IF etat.obstacle \in Transformable /\ transformee(etat.obstacle) \in Decrypte
    THEN [c \in DOMAIN g \cup {etat.coordonnees_obstacle} |->
             IF c = etat.coordonnees_obstacle THEN transformee(etat.obstacle) ELSE g[c]]
    ELSE [c \in DOMAIN g \ {etat.coordonnees_obstacle} |-> g[c]]

\* variants of the handler of HorsRegles: the reason goes to every client, and
\* the player is put back at the tail of liste_joueurs
hors_regles_a_tous(courant, file, resultat) ==
    /\ datagrammes' = datagrammes \o
           [i \in 1..Len(dict_client_joueur) |->
               <<dict_client_joueur[i].cle, "affichage", resultat.message>>]
    /\ joueurs' = [joueurs EXCEPT ![courant].commandes = file]
    /\ UNCHANGED <<mode, grille, liste_joueurs, vainqueur>>
hors_regles_en_queue(courant, file, resultat) ==
    /\ datagrammes' = Append(datagrammes,
                             <<joueurs[courant].identifiant_client, "affichage", resultat.message>>)
    /\ joueurs' = [joueurs EXCEPT ![courant].commandes = file]
    /\ liste_joueurs' = Append(Tail(liste_joueurs), courant)
    /\ UNCHANGED <<mode, grille, vainqueur>>
\* except regle.HorsRegles: the reason goes to the player, who is put back
\* at the head of liste_joueurs, and the loop goes on
hors_regles(courant, file, resultat) ==
    /\ datagrammes' = Append(datagrammes,
                             <<joueurs[courant].identifiant_client, "affichage", resultat.message>>)
    /\ joueurs' = [joueurs EXCEPT ![courant].commandes = file]
    /\ UNCHANGED <<mode, grille, liste_joueurs, vainqueur>>

\* variants of the end of the turn: a won game goes on, and a won game leaves
\* the winner where he was, at the head of liste_joueurs
effectuer_sans_fin(courant, file, etat, resultat) ==
    LET js == [joueurs EXCEPT ![courant].commandes = file,
                              ![courant].coordonnees =
                                  IF etat.transformation # "None" THEN @
                                  ELSE etat.coordonnees_obstacle]
        l == Append(Tail(liste_joueurs), courant)
    IN  /\ mode' = mode
        /\ vainqueur' = vainqueur
        /\ grille' = IF etat.transformation # "None" THEN transformer(grille, etat) ELSE grille
        /\ joueurs' = ramasser(js, l, dict_client_joueur, vainqueur, 0)
        /\ liste_joueurs' = l
        /\ datagrammes' = datagrammes \o afficher_plateau(dict_client_joueur)
                                      \o a_qui_de_jouer(mode, dict_client_joueur, l, js)
effectuer_sauf_gain(courant, file, etat, resultat) ==
    LET gagne == resultat.exception = "PartieGagnee"
        js == [joueurs EXCEPT ![courant].commandes = file,
                              ![courant].coordonnees =
                                  IF etat.transformation # "None" \/ gagne THEN @
                                  ELSE etat.coordonnees_obstacle]
        l == IF gagne THEN liste_joueurs ELSE Append(Tail(liste_joueurs), courant)
    IN  /\ mode' = IF gagne THEN fin_de_partie ELSE mode
        /\ vainqueur' = IF gagne THEN courant ELSE vainqueur
        /\ grille' = IF etat.transformation # "None" THEN transformer(grille, etat) ELSE grille
        /\ joueurs' = ramasser(js, l, dict_client_joueur, IF gagne THEN courant ELSE vainqueur, 0)
        /\ liste_joueurs' = l
        /\ datagrammes' = IF gagne THEN datagrammes
                          ELSE datagrammes \o afficher_plateau(dict_client_joueur)
                                           \o a_qui_de_jouer(mode, dict_client_joueur, l, js)
\* variant of the end of the turn: the player keeps the head of liste_joueurs
effectuer_rejoue(courant, file, etat, resultat) ==
    LET gagne == resultat.exception = "PartieGagnee"
        m == IF gagne THEN fin_de_partie ELSE mode
        js == [joueurs EXCEPT ![courant].commandes = file,
                              ![courant].coordonnees =
                                  IF etat.transformation # "None" THEN @
                                  ELSE etat.coordonnees_obstacle]
    IN  /\ mode' = m
        /\ vainqueur' = IF gagne THEN courant ELSE vainqueur
        /\ grille' = IF etat.transformation # "None" THEN transformer(grille, etat) ELSE grille
        /\ joueurs' = js
        /\ liste_joueurs' = liste_joueurs
        /\ datagrammes' = datagrammes \o afficher_plateau(dict_client_joueur)
                                      \o a_qui_de_jouer(m, dict_client_joueur, liste_joueurs, js)
\* the end of the turn, reached when no rule is broken and, mode and
\* vainqueur being set, when the game is won
effectuer(courant, file, etat, resultat) ==
    LET gagne == resultat.exception = "PartieGagnee"
        m == IF gagne THEN fin_de_partie ELSE mode
        js == [joueurs EXCEPT ![courant].commandes = file,
                              ![courant].coordonnees =
                                  IF etat.transformation # "None" THEN @
                                  ELSE etat.coordonnees_obstacle]
        l == Append(Tail(liste_joueurs), courant)
    IN  /\ mode' = m
        /\ vainqueur' = IF gagne THEN courant ELSE vainqueur
        /\ grille' = IF etat.transformation # "None" THEN transformer(grille, etat) ELSE grille
        /\ joueurs' = ramasser(js, l, dict_client_joueur, IF gagne THEN courant ELSE vainqueur, 0)
        /\ liste_joueurs' = l
        /\ datagrammes' = datagrammes \o afficher_plateau(dict_client_joueur)
                                      \o a_qui_de_jouer(m, dict_client_joueur, l, js)

\* while self.mode < self.fin_de_partie: the test fails, jouer() returns
jouer_sortir ==
    /\ pc = "jouer"
    /\ mode >= fin_de_partie
    /\ pc' = "envoi_principale"
    /\ issue' = "sortie"
    /\ UNCHANGED <<plateau, connexion_autorisee, connexion, retour, erreur>>
    /\ UNCHANGED <<acceptees, tirages, regles, messagerie, ecoute, noms,
                   emetteur_courant, expedies, extraction, cartographie, client, boucle, remises>>

\* variant: a player without command lets the next one play
jouer_sans_commande_passe ==
    /\ pc = "jouer"
    /\ mode < fin_de_partie
    /\ liste_joueurs # <<>>
    /\ joueurs[liste_joueurs[1]].commandes = <<>>
    /\ \E j \in DOMAIN joueurs : joueurs[j].commandes # <<>>
    /\ liste_joueurs' = Append(Tail(liste_joueurs), liste_joueurs[1])
    /\ pc' = "jouer"
    /\ issue' = "sans_commande"
    /\ UNCHANGED <<mode, grille, departs, dict_client_joueur, joueurs, joueur_courant,
                   vainqueur, datagrammes, connexion_autorisee, connexion, retour, erreur>>
    /\ UNCHANGED <<acceptees, tirages, regles, messagerie, ecoute, noms,
                   emetteur_courant, expedies, extraction, cartographie, client>>
    /\ UNCHANGED remises
    /\ iterations' = iterations + 1
    /\ UNCHANGED en_attente
\* the player at the head has no command: he is put back and the loop breaks
jouer_sans_commande ==
    /\ pc = "jouer"
    /\ mode < fin_de_partie
    /\ liste_joueurs # <<>>
    /\ joueurs[liste_joueurs[1]].commandes = <<>>
    /\ pc' = "envoi_principale"
    /\ issue' = "sans_commande"
    /\ UNCHANGED <<plateau, connexion_autorisee, connexion, retour, erreur>>
    /\ UNCHANGED <<acceptees, tirages, regles, messagerie, ecoute, noms,
                   emetteur_courant, expedies, extraction, cartographie, client>>
    /\ UNCHANGED remises
    /\ iterations' = iterations + 1
    /\ UNCHANGED en_attente

\* the player at the head has a command: it is taken out of his list, checked
\* against the rules and, unless a rule is broken, carried out
jouer_commande ==
    /\ pc = "jouer"
    /\ mode < fin_de_partie
    /\ liste_joueurs # <<>>
    /\ joueurs[liste_joueurs[1]].commandes # <<>>
    /\ LET courant == liste_joueurs[1]
           commande == joueurs[courant].commandes[1]
           file == Tail(joueurs[courant].commandes)
           controle == obtenir_controle(commande)
           adversaires == [i \in 1..(Len(liste_joueurs) - 1) |->
                              joueurs[liste_joueurs[i + 1]].coordonnees]
           instantane == Etat(controle[1], controle[2], grille, joueurs[courant], adversaires)
       IN  \E resultat \in verifier_regles(instantane) :
              /\ issue' = resultat.exception
              /\ IF resultat.exception = "HorsRegles"
                 THEN hors_regles(courant, file, resultat)
                 ELSE effectuer(courant, file, instantane, resultat)
    /\ sur_le_terrain(joueurs')
    /\ joueur_courant' = 0
    /\ pc' = "jouer"
    /\ acceptees' = IF issue' = "HorsRegles" THEN acceptees
                    ELSE noter(acceptees, liste_joueurs[1])
    /\ UNCHANGED <<departs, dict_client_joueur, connexion_autorisee, connexion, retour, erreur>>
    /\ UNCHANGED <<tirages, regles, messagerie, ecoute, noms,
                   emetteur_courant, expedies, extraction, cartographie, client>>
    /\ UNCHANGED remises
    /\ iterations' = iterations + 1
    /\ UNCHANGED en_attente

\* liste_joueurs.pop(0) on an empty list: IndexError leaves jouer() and the
\* main thread. The server calls jouer() only after ajouter_commande found
\* the client in dict_client_joueur, so that no step of Next takes this exit.
jouer_sans_joueur ==
    /\ pc = "jouer"
    /\ mode < fin_de_partie
    /\ liste_joueurs = <<>>
    /\ pc' = "plante"
    /\ erreur' = "IndexError"
    /\ issue' = "erreur"
    /\ UNCHANGED <<plateau, connexion_autorisee, connexion, retour>>
    /\ UNCHANGED <<acceptees, tirages, regles, messagerie, ecoute, noms,
                   emetteur_courant, expedies, extraction, cartographie, client>>
    /\ UNCHANGED remises
    /\ iterations' = iterations + 1
    /\ UNCHANGED en_attente

\* variant: every client is told that it has won
RECURSIVE annoncer_gagne(_, _, _)
annoncer_gagne(d, v, js) ==
    IF d = <<>> THEN <<>>
    ELSE (IF v # 0
          THEN << <<d[1].cle, "affichage", <<"Vous avez gagne la partie !">> >> >>
          ELSE <<>>)
         \o << <<d[1].cle, "fin", <<"None">> >> >>
         \o annoncer_gagne(Tail(d), v, js)
\* terminer(): the winner, if any, then 'fin', for every client of the dict
RECURSIVE annoncer(_, _, _)
annoncer(d, v, js) ==
    IF d = <<>> THEN <<>>
    ELSE (IF v = d[1].valeur
          THEN << <<d[1].cle, "affichage", <<"Vous avez gagne la partie !">> >> >>
          ELSE IF v # 0
          THEN << <<d[1].cle, "affichage", <<js[v].nom, " a gagne la partie !">> >> >>
          ELSE <<>>)
         \o << <<d[1].cle, "fin", <<"None">> >> >>
         \o annoncer(Tail(d), v, js)

(***************************************************************************)
(* interface_serveur.py: a connection is made.                             *)
(***************************************************************************)
\* verify_request(), in the thread Serveur: while connexion_autorisee is set
\* the connection is let in and process_request starts its RequestHandler
\* thread. A connection that is turned away leaves nothing behind and may
\* come again: it stays "attendue"
accepter(identifiant_client) ==
    /\ connexion_autorisee
    /\ pc \notin {"arret", "plante"}
    /\ connexion[identifiant_client] = "attendue"
    /\ \A c \in Clients : rang(c) < rang(identifiant_client) => connexion[c] # "attendue"
    /\ connexion' = [connexion EXCEPT ![identifiant_client] = "init"]
    /\ UNCHANGED <<plateau, pc, connexion_autorisee, issue, retour, erreur>>
    /\ UNCHANGED <<acceptees, tirages, regles, messagerie, ecoute, noms,
                   emetteur_courant, expedies, extraction, cartographie, client, boucle, remises>>
\* RequestHandler.__init__, in the thread of the connection: next(compter) is
\* called; a generator that another thread is running raises ValueError,
\* which ends the thread before setup()
compter_suivant(identifiant_client) ==
    /\ connexion[identifiant_client] = "init"
    /\ connexion' = [connexion EXCEPT ![identifiant_client] =
                         IF \E c \in Clients : connexion[c] = "compte"
                         THEN "avortee" ELSE "compte"]
    /\ UNCHANGED <<plateau, pc, connexion_autorisee, issue, retour, erreur>>
    /\ UNCHANGED <<acceptees, tirages, regles, messagerie, ecoute, noms,
                   emetteur_courant, expedies, extraction, cartographie, client, boucle, remises>>
\* ... next(compter) returns: self.nom_joueur = "Joueur-" + str(...)
nommer(identifiant_client) ==
    /\ connexion[identifiant_client] = "compte"
    /\ nom_attribue' = [nom_attribue EXCEPT ![identifiant_client] = nom_joueur(compteur)]
    /\ compteur' = compteur + 1
    /\ connexion' = [connexion EXCEPT ![identifiant_client] = "setup"]
    /\ UNCHANGED <<plateau, pc, connexion_autorisee, issue, retour, erreur>>
    /\ UNCHANGED <<acceptees, tirages, regles, messagerie, ecoute,
                   emetteur_courant, expedies, extraction, cartographie, client, boucle, remises>>
\* RequestHandler.setup(): Messagerie.ajouter((self, 'nouveau_joueur', None));
\* the main thread finds the envelopes of the connections that wait in the
\* order in which their threads have run setup()
informer(identifiant_client) ==
    /\ connexion[identifiant_client] = "setup"
    /\ connexion' = [connexion EXCEPT ![identifiant_client] = "nouveau_joueur"]
    /\ UNCHANGED <<plateau, pc, connexion_autorisee, issue, retour, erreur>>
    /\ UNCHANGED <<acceptees, tirages, regles, messagerie, ecoute, noms,
                   emetteur_courant, expedies, extraction, cartographie, client, boucle, remises>>

(***************************************************************************)
(* serveur.py: the main thread, first loop (before the game).              *)
(***************************************************************************)
\* categorie == 'nouveau_joueur': labyrinthe.ajouter_joueur
attente_nouveau_joueur(emetteur) ==
    /\ pc = "attente"
    /\ connexion[emetteur] = "nouveau_joueur"
    /\ ajouter_joueur(emetteur, nom_attribue[emetteur])
    /\ connexion' = [connexion EXCEPT ![emetteur] = "ouverte"]
    /\ pc' = "envoi_attente"
    /\ UNCHANGED <<connexion_autorisee, issue>>
    /\ UNCHANGED <<acceptees, tirages, regles, messagerie, ecoute, noms, extraction, cartographie, client, boucle, remises>>
    /\ emetteur_courant' = emetteur
    /\ expedies' = <<>>

\* what the 'nouveau_joueur' branch sends to emetteur after the datagrams
accueil(emetteur) ==
    << <<emetteur, "validation_schema", <<"[", touche_commencer[1], "]">> >>,
       <<emetteur, "validation_erreur", <<"Erreur dans la saisie.">> >>,
       <<emetteur, "affichage", <<"Entrez ", touche_commencer[1], " pour commencer a jouer :">> >> >>
\* ... then the datagrams are sent, emetteur is sent the schema and the prompt,
\* and connexion_autorisee is refreshed
attente_envoyer ==
    /\ pc = "envoi_attente"
    /\ datagrammes' = <<>>
    /\ connexion_autorisee' = est_ouvert
    /\ retour' = 0
    /\ pc' = "attente"
    /\ UNCHANGED <<mode, grille, departs, dict_client_joueur, liste_joueurs, joueurs,
                   joueur_courant, vainqueur, connexion, issue, erreur>>
    /\ UNCHANGED <<acceptees, tirages, regles, messagerie, ecoute, noms, extraction, cartographie, client, boucle, remises>>
    /\ expedies' = datagrammes \o accueil(emetteur_courant)
    /\ emetteur_courant' = ""

\* categorie == 'quitte': labyrinthe.effacer_joueur, whose datagrams stay in
\* the board. The envelope comes from RequestHandler.finish() when the
\* connection closes (ferme), or from handle() when the peer has sent the
\* category itself and stays connected
attente_quitte(emetteur, ferme) ==
    /\ pc = "attente"
    /\ connexion[emetteur] = "ouverte"
    /\ effacer_joueur(emetteur)
    /\ connexion' = IF ferme THEN [connexion EXCEPT ![emetteur] = "fermee"] ELSE connexion
    /\ pc' = IF erreur' = "" THEN "attente" ELSE "plante"
    /\ UNCHANGED <<connexion_autorisee, issue>>
    /\ acceptees' = IF emetteur \in cles(dict_client_joueur)
                    THEN oublier(acceptees, joueur_de(dict_client_joueur, emetteur))
                    ELSE acceptees
    /\ UNCHANGED <<tirages, regles, messagerie, ecoute, noms, emetteur_courant, extraction, cartographie, client, boucle, remises>>
    /\ expedies' = <<>>

\* categorie == 'commande': touche_commencer ends the loop, any other message
\* is dropped
attente_commande(emetteur, message) ==
    /\ pc = "attente"
    /\ connexion[emetteur] = "ouverte"
    /\ pc' = IF message = touche_commencer THEN "demarrage" ELSE "attente"
    /\ UNCHANGED <<plateau, connexion_autorisee, connexion, issue, retour, erreur>>
    /\ UNCHANGED <<acceptees, tirages, regles, messagerie, ecoute, noms, extraction, cartographie, client, boucle, remises>>
    /\ emetteur_courant' = IF message = touche_commencer THEN emetteur ELSE ""
    /\ expedies' = <<>>

\* serveur.connexion_autorisee = False, labyrinthe.demarrer()
demarrage ==
    /\ pc = "demarrage"
    /\ demarrer
    /\ connexion_autorisee' = FALSE
    /\ pc' = "envoi_principale"
    /\ UNCHANGED <<connexion, issue>>
    /\ UNCHANGED <<acceptees, regles, messagerie, ecoute, noms,
                   expedies, extraction, cartographie, client, boucle, remises>>
    /\ emetteur_courant' = ""

(***************************************************************************)
(* serveur.py: the main thread, main loop and end of the game.             *)
(***************************************************************************)
\* a 'nouveau_joueur' that reaches the main loop matches no branch
principale_nouveau_joueur(emetteur) ==
    /\ pc = "principale"
    /\ connexion[emetteur] = "nouveau_joueur"
    /\ connexion' = [connexion EXCEPT ![emetteur] = "ouverte"]
    /\ UNCHANGED <<plateau, pc, connexion_autorisee, issue, retour, erreur>>
    /\ UNCHANGED <<acceptees, tirages, regles, messagerie, ecoute, noms,
                   emetteur_courant, expedies, extraction, cartographie, client, boucle, remises>>

\* categorie == 'quitte': labyrinthe.effacer_joueur; the envelope comes from
\* finish() (ferme) or from a peer that has sent the category itself
principale_quitte(emetteur, ferme) ==
    /\ pc = "principale"
    /\ connexion[emetteur] = "ouverte"
    /\ effacer_joueur(emetteur)
    /\ connexion' = IF ferme THEN [connexion EXCEPT ![emetteur] = "fermee"] ELSE connexion
    /\ pc' = IF erreur' = "" THEN "envoi_principale" ELSE "plante"
    /\ UNCHANGED <<connexion_autorisee, issue>>
    /\ acceptees' = IF emetteur \in cles(dict_client_joueur)
                    THEN oublier(acceptees, joueur_de(dict_client_joueur, emetteur))
                    ELSE acceptees
    /\ UNCHANGED <<tirages, regles, messagerie, ecoute, noms,
                   emetteur_courant, expedies, extraction, cartographie, client, boucle, remises>>

\* categorie == 'commande': labyrinthe.ajouter_commande, then labyrinthe.jouer()
principale_commande(emetteur, message) ==
    /\ pc = "principale"
    /\ connexion[emetteur] = "ouverte"
    /\ ajouter_commande(emetteur, message)
    /\ a_portee(joueurs')
    /\ pc' = IF erreur' = "" THEN "jouer" ELSE "plante"
    /\ issue' = ""
    /\ UNCHANGED <<connexion_autorisee, connexion>>
    /\ UNCHANGED <<acceptees, tirages, regles, messagerie, ecoute, noms,
                   emetteur_courant, expedies, extraction, cartographie, client>>
    /\ UNCHANGED remises
    /\ iterations' = 0
    /\ en_attente' = IF erreur' = "" THEN en_attente_de(joueurs') ELSE 0

\* for ... in labyrinthe.get_datagrammes(): the datagrams are sent, then the
\* test of the main loop: on or out
principale_envoyer ==
    /\ pc = "envoi_principale"
    /\ datagrammes' = <<>>
    /\ pc' = IF mode < fin_de_partie THEN "principale" ELSE "fin"
    /\ issue' = ""
    /\ UNCHANGED <<mode, grille, departs, dict_client_joueur, liste_joueurs, joueurs,
                   joueur_courant, vainqueur, connexion_autorisee, connexion, retour, erreur>>
    /\ tirages' = <<>>
    /\ UNCHANGED <<acceptees, regles, messagerie, ecoute, noms,
                   emetteur_courant, expedies, extraction, cartographie, client>>
    /\ UNCHANGED remises
    /\ iterations' = 0
    /\ en_attente' = 0

\* labyrinthe.terminer()
terminer ==
    /\ pc = "fin"
    /\ datagrammes' = datagrammes \o annoncer(dict_client_joueur, vainqueur, joueurs)
    /\ pc' = "envoi_fin"
    /\ UNCHANGED <<mode, grille, departs, dict_client_joueur, liste_joueurs, joueurs,
                   joueur_courant, vainqueur, connexion_autorisee, connexion, issue,
                   retour, erreur>>
    /\ UNCHANGED <<acceptees, tirages, regles, messagerie, ecoute, noms,
                   emetteur_courant, expedies, extraction, cartographie, client, boucle, remises>>

\* the last datagrams are sent, serveur.shutdown()
arreter ==
    /\ pc = "envoi_fin"
    /\ datagrammes' = <<>>
    /\ pc' = "arret"
    /\ UNCHANGED <<mode, grille, departs, dict_client_joueur, liste_joueurs, joueurs,
                   joueur_courant, vainqueur, connexion_autorisee, connexion, issue,
                   retour, erreur>>
    /\ UNCHANGED <<acceptees, tirages, regles, messagerie, ecoute, noms,
                   emetteur_courant, expedies, extraction, cartographie, client, boucle, remises>>

(***************************************************************************)
(* The program: Labyrinthe(nom, carte), then main() of serveur.py.         *)
(***************************************************************************)
Init ==
    /\ mode = debut_de_partie
    /\ grille = grille_de(Carte)
    /\ departs \in departs_possibles(determiner_bandes(grille_de(Carte), sorties_de(Carte)))
    /\ dict_client_joueur = <<>>
    /\ liste_joueurs = <<>>
    /\ joueurs = <<>>
    /\ joueur_courant = 0
    /\ vainqueur = 0
    /\ datagrammes = <<>>
    /\ pc = "attente"
    /\ connexion_autorisee = (0 < Len(departs))
    /\ connexion = [c \in Clients |-> "attendue"]
    /\ issue = ""
    /\ retour = 0
    /\ erreur = ""
    /\ emetteur_courant = ""
    /\ expedies = <<>>
    /\ acceptees = <<>>
    /\ tirages = <<>>
    /\ etat_verifie = <<>>
    /\ exception_levee = sans_verdict
    /\ messages = <<>>
    /\ verrou = "libre"
    /\ dormeurs = {}
    /\ fil = <<>>
    /\ a_envoyer = <<>>
    /\ envoyes = <<>>
    /\ recus = <<>>
    /\ receptions = <<>>
    /\ compteur = 1
    /\ nom_attribue = [c \in Clients |-> ""]
    /\ saisie_client = <<>>
    /\ commandes_extraites = <<>>
    /\ carte_lue = <<>>
    /\ departs_determines = <<>>
    /\ schema_parametre = FALSE
    /\ validation_schema = ""
    /\ validation_erreur = ""
    /\ mode_validateur = 1
    /\ valide = "non_lie"
    /\ transmis = <<>>
    /\ imprimes = <<>>
    /\ traitees = <<>>
    /\ etat_client = "boucle"
    /\ iterations = 0
    /\ en_attente = 0
    /\ effaces = {}

Next ==
    \/ \E c \in Clients : accepter(c)
    \/ \E c \in Clients : compter_suivant(c)
    \/ \E c \in Clients : nommer(c)
    \/ \E c \in Clients : informer(c)
    \/ \E c \in Clients : attente_nouveau_joueur(c)
    \/ attente_envoyer
    \/ \E c \in Clients : attente_quitte(c, TRUE)
    \/ \E c \in Clients, m \in Saisies : attente_commande(c, m)
    \/ demarrage
    \/ \E c \in Clients : principale_nouveau_joueur(c)
    \/ \E c \in Clients : principale_quitte(c, TRUE)
    \/ \E c \in Clients, m \in Saisies : principale_commande(c, m)
    \/ jouer_sortir
    \/ jouer_sans_commande
    \/ jouer_commande
    \/ principale_envoyer
    \/ terminer
    \/ arreter

Spec == Init /\ [][Next]_vars

(***************************************************************************)
(* The same program with two connections, whose clients also pierce the    *)
(* wall.                                                                   *)
(***************************************************************************)
NextPercer ==
    \/ \E c \in DeuxConnexions : accepter(c)
    \/ \E c \in DeuxConnexions : compter_suivant(c)
    \/ \E c \in DeuxConnexions : nommer(c)
    \/ \E c \in DeuxConnexions : informer(c)
    \/ \E c \in DeuxConnexions : attente_nouveau_joueur(c)
    \/ attente_envoyer
    \/ \E c \in DeuxConnexions : attente_quitte(c, TRUE)
    \/ \E c \in DeuxConnexions, m \in SaisiesPercer : attente_commande(c, m)
    \/ demarrage
    \/ \E c \in DeuxConnexions : principale_nouveau_joueur(c)
    \/ \E c \in DeuxConnexions : principale_quitte(c, TRUE)
    \/ \E c \in DeuxConnexions, m \in SaisiesPercer : principale_commande(c, m)
    \/ jouer_sortir
    \/ jouer_sans_commande
    \/ jouer_commande
    \/ principale_envoyer
    \/ terminer
    \/ arreter

SpecPercer == Init /\ [][NextPercer]_vars

(***************************************************************************)
(* The same program on a map with two start positions, so that the third   *)
(* connection finds the board full.                                        *)
(***************************************************************************)
CarteEtroite == << <<"U", " ", " ", "O">> >>
InitComplet ==
    /\ mode = debut_de_partie
    /\ grille = grille_de(CarteEtroite)
    /\ departs \in departs_possibles(determiner_bandes(grille_de(CarteEtroite), sorties_de(CarteEtroite)))
    /\ dict_client_joueur = <<>>
    /\ liste_joueurs = <<>>
    /\ joueurs = <<>>
    /\ joueur_courant = 0
    /\ vainqueur = 0
    /\ datagrammes = <<>>
    /\ pc = "attente"
    /\ connexion_autorisee = (0 < Len(departs))
    /\ connexion = [c \in Clients |-> "attendue"]
    /\ issue = ""
    /\ retour = 0
    /\ erreur = ""
    /\ emetteur_courant = ""
    /\ expedies = <<>>
    /\ acceptees = <<>>
    /\ tirages = <<>>
    /\ etat_verifie = <<>>
    /\ exception_levee = sans_verdict
    /\ messages = <<>>
    /\ verrou = "libre"
    /\ dormeurs = {}
    /\ fil = <<>>
    /\ a_envoyer = <<>>
    /\ envoyes = <<>>
    /\ recus = <<>>
    /\ receptions = <<>>
    /\ compteur = 1
    /\ nom_attribue = [c \in Clients |-> ""]
    /\ saisie_client = <<>>
    /\ commandes_extraites = <<>>
    /\ carte_lue = <<>>
    /\ departs_determines = <<>>
    /\ schema_parametre = FALSE
    /\ validation_schema = ""
    /\ validation_erreur = ""
    /\ mode_validateur = 1
    /\ valide = "non_lie"
    /\ transmis = <<>>
    /\ imprimes = <<>>
    /\ traitees = <<>>
    /\ etat_client = "boucle"
    /\ iterations = 0
    /\ en_attente = 0
    /\ effaces = {}

SpecComplet == InitComplet /\ [][Next]_vars

\* a step of the main thread: no RequestHandler thread on its way to the
\* Messagerie moves
fil_principal ==
    \A c \in Clients :
        connexion[c] \in {"attendue", "init", "compte", "setup"} => connexion'[c] = connexion[c]
\* a step of the main thread inside jouer()
dans_jouer == pc = "jouer" /\ fil_principal
\* the caller of the board taken alone has the hand: no call of jouer() is running
a_la_main == pc \in {"appel", "envoi_principale"}

(***************************************************************************)
(* The properties.                                                         *)
(***************************************************************************)
\* C1: whatever operations of the board are called and whatever the main
\* thread of the server does with it, the mode only moves debut_de_partie ->
\* jeu_en_cours -> fin_de_partie: no step lowers it.
C1_mode_croissant == [][mode' >= mode]_vars
\* a game that went through the three modes and was won
C1_temoin == pc = "arret" /\ mode = fin_de_partie /\ vainqueur # 0

\* C2: a call of ajouter_joueur, in whatever mode the board is, adds the
\* player, to dict_client_joueur and at the tail of liste_joueurs, exactly
\* when the mode is debut_de_partie and fewer players than start positions
\* are in; in every other case it returns None and leaves dict_client_joueur,
\* liste_joueurs, mode and datagrammes as they were.
C2_ajouter_joueur ==
    [][\A c \in Clients :
          (a_la_main /\ emetteur_courant' = c) =>
              IF mode = debut_de_partie /\ Len(liste_joueurs) < Len(departs)
              THEN /\ retour' # 0
                   /\ retour' \notin Range(liste_joueurs)
                   /\ IF c \in cles(dict_client_joueur)
                      THEN dict_client_joueur' =
                               [i \in 1..Len(dict_client_joueur) |->
                                   IF dict_client_joueur[i].cle = c
                                   THEN [cle |-> c, valeur |-> retour']
                                   ELSE dict_client_joueur[i]]
                      ELSE dict_client_joueur' =
                               Append(dict_client_joueur, [cle |-> c, valeur |-> retour'])
                   /\ liste_joueurs' = Append(liste_joueurs, retour')
                   /\ joueurs'[retour'].identifiant_client = c
                   /\ mode' = mode
              ELSE /\ retour' = 0
                   /\ UNCHANGED <<dict_client_joueur, liste_joueurs, mode, datagrammes>>]_vars
\* the game is on and a start position is free: the call has returned None
C2_temoin ==
    /\ pc = "appel"
    /\ emetteur_courant \in Clients
    /\ retour = 0
    /\ mode = jeu_en_cours
    /\ Len(liste_joueurs) < Len(departs)
    /\ emetteur_courant \notin cles(dict_client_joueur)

\* C3: in debut_de_partie there are never more players than start positions,
\* and from jeu_en_cours on the number of players never goes up: it changes
\* only when a player who leaves is taken out.
C3_effectif ==
    /\ [](mode = debut_de_partie => Len(dict_client_joueur) <= Len(departs))
    /\ [][mode >= jeu_en_cours =>
             /\ Len(dict_client_joueur') <= Len(dict_client_joueur)
             /\ Len(dict_client_joueur') # Len(dict_client_joueur) =>
                   /\ pc = "principale"
                   /\ \E c \in cles(dict_client_joueur) :
                         /\ connexion[c] = "ouverte" /\ connexion'[c] = "fermee"
                         /\ dict_client_joueur' = supprimer(dict_client_joueur, c)]_vars
\* a full game is on while one more connection waits for an answer
C3_temoin ==
    /\ mode = jeu_en_cours
    /\ pc = "principale"
    /\ Len(dict_client_joueur) = Len(departs)
    /\ \E c \in Clients : connexion[c] = "nouveau_joueur"

\* C4: effacer_joueur of a known client in jeu_en_cours: when at most one
\* player is left the mode becomes fin_de_partie and the winner is the player
\* left (none if nobody is left); when more than one is left the mode stays
\* jeu_en_cours and no winner is set. In debut_de_partie effacer_joueur never
\* changes the mode.
C4_effacer_joueur ==
    [][\A c \in cles(dict_client_joueur) :
          (connexion[c] = "ouverte" /\ connexion'[c] = "fermee") =>
              /\ dict_client_joueur' = supprimer(dict_client_joueur, c)
              /\ liste_joueurs' = retirer(liste_joueurs, joueur_de(dict_client_joueur, c))
              /\ mode = jeu_en_cours =>
                    IF Len(dict_client_joueur') <= 1
                    THEN /\ mode' = fin_de_partie
                         /\ vainqueur' = IF dict_client_joueur' = <<>> THEN 0
                                         ELSE dict_client_joueur'[1].valeur
                    ELSE /\ mode' = jeu_en_cours
                         /\ vainqueur' = 0
              /\ mode = debut_de_partie => mode' = debut_de_partie]_vars
\* a player left a game of three: the game goes on between the two others
C4_temoin ==
    /\ mode = jeu_en_cours
    /\ pc = "envoi_principale"
    /\ Len(dict_client_joueur) = 2
    /\ vainqueur = 0
    /\ \E i \in 1..Len(datagrammes) :
          /\ Len(datagrammes[i][3]) = 2
          /\ datagrammes[i][3][2] = " a quitte la partie."

\* C5: effacer_joueur of a client that is not in dict_client_joueur raises an
\* error, and dict_client_joueur, liste_joueurs, mode, vainqueur and
\* datagrammes stay as they were.
C5_client_inconnu ==
    [][\A c \in Clients \ cles(dict_client_joueur) :
          (connexion[c] = "ouverte" /\ connexion'[c] = "fermee") =>
              /\ erreur' = "KeyError"
              /\ pc' = "plante"
              /\ UNCHANGED <<dict_client_joueur, liste_joueurs, mode, vainqueur, datagrammes>>]_vars
\* the connection that was refused closes while players are in
C5_temoin ==
    /\ erreur = "KeyError"
    /\ dict_client_joueur # <<>>
    /\ \E c \in Clients \ cles(dict_client_joueur) : connexion[c] = "fermee"
    /\ \A c \in Clients : connexion[c] = "ouverte" => c \in cles(dict_client_joueur)

\* C6: when the player at the head of liste_joueurs has no command, jouer()
\* stops at once and leaves liste_joueurs, the coordinates and the commands of
\* every player, grille, mode and datagrammes as they were, even when players
\* further in the list have commands.
C6_sans_commande ==
    [][(/\ dans_jouer
        /\ mode < fin_de_partie
        /\ liste_joueurs # <<>>
        /\ joueurs[liste_joueurs[1]].commandes = <<>>) =>
            /\ pc' = "envoi_principale"
            /\ UNCHANGED <<liste_joueurs, joueurs, grille, mode, vainqueur, datagrammes>>]_vars
\* jouer() has stopped on a head without command while another player has one
C6_temoin ==
    /\ pc = "envoi_principale"
    /\ issue = "sans_commande"
    /\ joueurs[liste_joueurs[1]].commandes = <<>>
    /\ \E j \in Range(liste_joueurs) : joueurs[j].commandes # <<>>

\* C7: when a command of the player at the head breaks a rule, one datagram
\* 'affichage' with the reason is added, for that player only; the player is
\* still at the head of liste_joueurs; the command is out of his list; grille,
\* the coordinates of every player, the order of liste_joueurs and the
\* commands of the other players are as they were.
C7_hors_regles ==
    [][(dans_jouer /\ issue' = "HorsRegles") =>
          LET courant == liste_joueurs[1]
              dernier == datagrammes'[Len(datagrammes')]
          IN  /\ Len(datagrammes') = Len(datagrammes) + 1
              /\ SubSeq(datagrammes', 1, Len(datagrammes)) = datagrammes
              /\ dernier[1] = joueurs[courant].identifiant_client
              /\ dernier[2] = "affichage"
              /\ dernier[3] # <<>>
              /\ liste_joueurs' = liste_joueurs
              /\ joueurs'[courant].commandes = Tail(joueurs[courant].commandes)
              /\ grille' = grille
              /\ DOMAIN joueurs' = DOMAIN joueurs
              /\ \A j \in DOMAIN joueurs :
                    /\ joueurs'[j].coordonnees = joueurs[j].coordonnees
                    /\ j # courant => joueurs'[j].commandes = joueurs[j].commandes
              /\ UNCHANGED <<mode, vainqueur, dict_client_joueur>>]_vars
\* a command was refused while another player has commands of his own
C7_temoin ==
    /\ pc = "jouer"
    /\ issue = "HorsRegles"
    /\ datagrammes # <<>>
    /\ datagrammes[Len(datagrammes)][1] = joueurs[liste_joueurs[1]].identifiant_client
    /\ \E j \in Range(liste_joueurs) : j # liste_joueurs[1] /\ joueurs[j].commandes # <<>>

\* C8, as the specification has it: after a command of a player is refused,
\* no command that was already in his list is checked before he sends a new
\* input.
C8_enonce ==
    [][(dans_jouer /\ issue = "HorsRegles") =>
          joueurs'[liste_joueurs[1]].commandes = joueurs[liste_joueurs[1]].commandes]_vars
\* C8: after a command of a player is refused, the player stays at the head
\* and the loop goes on; the refused command is gone, and the next command of
\* his list, if he has one, is checked at once, before any new input; jouer()
\* stops only when his list is empty.
C8_commande_suivante ==
    [][/\ (dans_jouer /\ issue' = "HorsRegles") =>
             /\ pc' = "jouer"
             /\ liste_joueurs' = liste_joueurs
             /\ joueurs'[liste_joueurs[1]].commandes = Tail(joueurs[liste_joueurs[1]].commandes)
       /\ (dans_jouer /\ issue = "HorsRegles") =>
             LET courant == liste_joueurs[1]
             IN  IF joueurs[courant].commandes # <<>>
                 THEN /\ joueurs'[courant].commandes = Tail(joueurs[courant].commandes)
                      /\ issue' \in {"None", "HorsRegles", "PartieGagnee"}
                      /\ pc' = "jouer"
                 ELSE /\ pc' = "envoi_principale"
                      /\ UNCHANGED <<joueurs, liste_joueurs>>]_vars
\* a command was refused and the same player has another one waiting
C8_temoin ==
    /\ pc = "jouer"
    /\ issue = "HorsRegles"
    /\ joueurs[liste_joueurs[1]].commandes # <<>>

\* C9: when the player at the head moves onto a Gagnable element no other
\* player stands on, jouer() sets the mode to fin_de_partie and makes him the
\* winner; then the loop stops without checking any other command, and from
\* then on neither grille nor the coordinates nor the commands change.
C9_partie_gagnee ==
    [][/\ (/\ dans_jouer
           /\ mode < fin_de_partie
           /\ liste_joueurs # <<>>
           /\ joueurs[liste_joueurs[1]].commandes # <<>>) =>
             LET courant == liste_joueurs[1]
                 commande == joueurs[courant].commandes[1]
                 cible == <<joueurs[courant].coordonnees[1] + direction_de(commande[Len(commande)])[1],
                            joueurs[courant].coordonnees[2] + direction_de(commande[Len(commande)])[2]>>
             IN  (/\ Len(commande) = 1
                  /\ terrain_de(grille, cible) \in Gagnable
                  /\ \A j \in Range(liste_joueurs) : joueurs[j].coordonnees # cible) =>
                     /\ issue' = "PartieGagnee"
                     /\ mode' = fin_de_partie
                     /\ vainqueur' = courant
       /\ (dans_jouer /\ issue' = "PartieGagnee") =>
             mode' = fin_de_partie /\ vainqueur' = liste_joueurs[1]
       /\ (dans_jouer /\ mode = fin_de_partie) => pc' = "envoi_principale"
       /\ mode = fin_de_partie => UNCHANGED <<grille, joueurs, liste_joueurs, mode, vainqueur>>]_vars
\* the game was won and jouer() has returned while a player still has commands
C9_temoin ==
    /\ pc = "envoi_principale"
    /\ issue = "sortie"
    /\ mode = fin_de_partie
    /\ vainqueur # 0
    /\ \E j \in DOMAIN joueurs : joueurs[j].commandes # <<>>

\* C10, as the specification has it: when the game is won the only changes
\* are the mode and the winner: the coordinates of the player are not set to
\* the winning element and he is not moved to the tail of liste_joueurs.
C10_enonce ==
    [][(dans_jouer /\ issue' = "PartieGagnee") =>
          /\ joueurs'[liste_joueurs[1]].coordonnees = joueurs[liste_joueurs[1]].coordonnees
          /\ liste_joueurs' = liste_joueurs]_vars
\* C10: the movement or the transformation is carried out unless a rule is
\* broken: when the game is won, besides the mode and the winner, the player
\* is moved onto the winning element and to the tail of liste_joueurs, and
\* the board is sent to every client, with no word on whose turn it is; when
\* a rule is broken neither grille nor any coordinates change.
C10_effet ==
    [][/\ (dans_jouer /\ issue' \in {"None", "PartieGagnee"}) =>
             LET courant == liste_joueurs[1]
                 commande == joueurs[courant].commandes[1]
                 cible == <<joueurs[courant].coordonnees[1] + direction_de(commande[Len(commande)])[1],
                            joueurs[courant].coordonnees[2] + direction_de(commande[Len(commande)])[2]>>
             IN  /\ liste_joueurs' = Append(Tail(liste_joueurs), courant)
                 /\ joueurs'[courant].commandes = Tail(joueurs[courant].commandes)
                 /\ IF Len(commande) = 1
                    THEN joueurs'[courant].coordonnees = cible /\ grille' = grille
                    ELSE /\ joueurs'[courant].coordonnees = joueurs[courant].coordonnees
                         /\ cible \in DOMAIN grille'
                         /\ grille'[cible] = transformee(terrain_de(grille, cible))
                 /\ issue' = "PartieGagnee" =>
                       /\ Len(commande) = 1
                       /\ mode' = fin_de_partie
                       /\ vainqueur' = courant
                       /\ datagrammes' = datagrammes \o afficher_plateau(dict_client_joueur)
                 /\ issue' = "None" => UNCHANGED <<mode, vainqueur>>
       /\ (dans_jouer /\ issue' = "HorsRegles") =>
             /\ grille' = grille
             /\ \A j \in DOMAIN joueurs : joueurs'[j].coordonnees = joueurs[j].coordonnees]_vars
\* the game was won: the winner stands on a Gagnable element and is at the
\* tail of liste_joueurs
C10_temoin ==
    /\ pc = "jouer"
    /\ issue = "PartieGagnee"
    /\ Len(liste_joueurs) > 1
    /\ liste_joueurs[Len(liste_joueurs)] = vainqueur
    /\ terrain_de(grille, joueurs[vainqueur].coordonnees) \in Gagnable

\* C11: when a command of the player at the head is carried out and the game
\* goes on, he goes from the head to the tail of liste_joueurs, the next
\* player becomes the head, and every client of dict_client_joueur, and
\* nobody else, is sent the board and then the name of the new head.
C11_tour_suivant ==
    [][(dans_jouer /\ issue' = "None") =>
          LET n == Len(dict_client_joueur)
              ajoutes == SubSeq(datagrammes', Len(datagrammes) + 1, Len(datagrammes'))
              tete == liste_joueurs'[1]
          IN  /\ liste_joueurs' = Tail(liste_joueurs) \o <<liste_joueurs[1]>>
              /\ SubSeq(datagrammes', 1, Len(datagrammes)) = datagrammes
              /\ Len(ajoutes) = 3 * n
              /\ \A i \in 1..n :
                    /\ ajoutes[2 * i - 1] = <<dict_client_joueur[i].cle, "affichage", <<"plateau">> >>
                    /\ ajoutes[2 * i] = <<dict_client_joueur[i].cle, "affichage", <<"">> >>
                    /\ ajoutes[2 * n + i][1] = dict_client_joueur[i].cle
                    /\ ajoutes[2 * n + i][2] = "affichage"
                    /\ ajoutes[2 * n + i][3] =
                          IF dict_client_joueur[i].valeur = tete
                          THEN <<"C'est a Vous de jouer">>
                          ELSE <<"C'est a ", joueurs[tete].nom, " de jouer">>]_vars
\* a turn is over in a game of several players that a refused client watches
C11_temoin ==
    /\ pc = "jouer"
    /\ issue = "None"
    /\ Len(liste_joueurs) >= 2
    /\ \E c \in Clients : connexion[c] = "ouverte" /\ c \notin cles(dict_client_joueur)
    /\ \E i \in 1..Len(datagrammes) :
          datagrammes[i][3] = <<"C'est a ", joueurs[liste_joueurs[1]].nom, " de jouer">>

\* C12: the turns go round with nobody skipped. In jeu_en_cours only the
\* player at the head of liste_joueurs has a command taken out of his list,
\* moves or changes grille; when a command of a player is carried out for the
\* second time or more, every other player still in liste_joueurs has had
\* exactly one command carried out since his last one; and the head changes
\* only when a command of the head is carried out or when the head leaves.
C12_tour_de_role ==
    [][mode = jeu_en_cours =>
          /\ \A j \in DOMAIN joueurs \cap DOMAIN joueurs' :
                (\/ Len(joueurs'[j].commandes) < Len(joueurs[j].commandes)
                 \/ joueurs'[j].coordonnees # joueurs[j].coordonnees) =>
                    dans_jouer /\ j = liste_joueurs[1]
          /\ grille' # grille => dans_jouer
          /\ (dans_jouer /\ issue' = "None" /\ liste_joueurs[1] \in DOMAIN acceptees) =>
                \A j \in Range(liste_joueurs) \ {liste_joueurs[1]} :
                    Cardinality({i \in 1..Len(acceptees[liste_joueurs[1]]) :
                                    acceptees[liste_joueurs[1]][i] = j}) = 1
          /\ (liste_joueurs # <<>> /\ liste_joueurs' # <<>> /\ liste_joueurs'[1] # liste_joueurs[1]) =>
                \/ dans_jouer /\ issue' \in {"None", "PartieGagnee"}
                \/ /\ pc = "principale"
                   /\ connexion[joueurs[liste_joueurs[1]].identifiant_client] = "ouverte"
                   /\ connexion'[joueurs[liste_joueurs[1]].identifiant_client] = "fermee"]_vars
\* a player has just gone through the door that was pierced, his second
\* command carried out at least, after one command of the other player
C12_temoin ==
    /\ mode = jeu_en_cours
    /\ pc = "jouer"
    /\ issue = "None"
    /\ Len(liste_joueurs) = 2
    /\ joueurs[liste_joueurs[2]].coordonnees = <<4, 0>>
    /\ liste_joueurs[1] \in DOMAIN acceptees
    /\ acceptees[liste_joueurs[1]] = <<liste_joueurs[2]>>
    /\ acceptees[liste_joueurs[2]] = <<>>

\* C13: a transformation that is carried out changes grille at the target
\* only (the element becomes its transformee when that is a Decrypte element,
\* else the target leaves grille) and moves nobody; a movement that is
\* carried out sets the coordinates of the player to his position plus the
\* direction and changes neither grille nor the coordinates of anybody else.
C13_effet_borne ==
    [][(dans_jouer /\ issue' \in {"None", "PartieGagnee"}) =>
          LET courant == liste_joueurs[1]
              commande == joueurs[courant].commandes[1]
              direction == direction_de(commande[Len(commande)])
              cible == <<joueurs[courant].coordonnees[1] + direction[1],
                         joueurs[courant].coordonnees[2] + direction[2]>>
              avant == terrain_de(grille, cible)
          IN  /\ DOMAIN joueurs' = DOMAIN joueurs
              /\ \A j \in DOMAIN joueurs \ {courant} :
                    joueurs'[j].coordonnees = joueurs[j].coordonnees
              /\ IF Len(commande) = 2
                 THEN /\ joueurs'[courant].coordonnees = joueurs[courant].coordonnees
                      /\ \A c \in (DOMAIN grille \cup DOMAIN grille') \ {cible} :
                            c \in DOMAIN grille /\ c \in DOMAIN grille' /\ grille'[c] = grille[c]
                      /\ IF transformee(avant) \in Decrypte
                         THEN cible \in DOMAIN grille' /\ grille'[cible] = transformee(avant)
                         ELSE cible \notin DOMAIN grille'
                 ELSE /\ joueurs'[courant].coordonnees = cible
                      /\ grille' = grille]_vars
\* the first command carried out in the game pierced the wall
C13_temoin ==
    /\ pc = "jouer"
    /\ issue = "None"
    /\ <<4, 0>> \in DOMAIN grille
    /\ grille[<<4, 0>>] = "Porte"
    /\ DOMAIN acceptees = {liste_joueurs[Len(liste_joueurs)]}
    /\ joueurs[liste_joueurs[Len(liste_joueurs)]].coordonnees = <<3, 0>>
    /\ Len(liste_joueurs) >= 2

\* C14: demarrer() with k players gives them k coordinates that differ two by
\* two, all taken from departs, and that are the block departs[i .. i+k-1]
\* for some i between 0 and len(departs) - k; with as many players as start
\* positions every start position is used once.
C14_placement ==
    [][(pc = "demarrage" /\ pc' = "envoi_principale") =>
          LET k == Len(liste_joueurs)
              places == {joueurs'[j].coordonnees : j \in Range(liste_joueurs)}
          IN  /\ k <= Len(departs)
              /\ DOMAIN joueurs' = DOMAIN joueurs
              /\ Cardinality(Range(liste_joueurs)) = k
              /\ Cardinality(places) = k
              /\ \E i \in 0..(Len(departs) - k) : places = {departs[i + n] : n \in 1..k}
              /\ k = Len(departs) => places = Range(departs)]_vars
\* two players are placed on the last two of the three start positions
C14_temoin ==
    /\ mode = jeu_en_cours
    /\ pc = "envoi_principale"
    /\ Len(liste_joueurs) = 2
    /\ Len(departs) = 3
    /\ {joueurs[j].coordonnees : j \in Range(liste_joueurs)} = {departs[2], departs[3]}
    /\ \E i \in 1..Len(datagrammes) : datagrammes[i][2] = "validation_schema"

\* C15, as the specification has it: in demarrer() one order decides both the
\* start positions and the turns: the player who gets the first position of
\* the block is the first of liste_joueurs, the player who gets the next one
\* is the second, and so on.
C15_enonce ==
    [][(pc = "demarrage" /\ pc' = "envoi_principale") =>
          \E i \in 0..(Len(departs) - Len(liste_joueurs)) :
              \A n \in 1..Len(liste_joueurs') :
                  joueurs'[liste_joueurs'[n]].coordonnees = departs[i + n]]_vars
\* C15: demarrer() draws two samples of the players that have nothing to do
\* with each other: the first one becomes liste_joueurs, the order of the
\* turns; the second one is only the order in which the consecutive start
\* positions are handed out.
C15_deux_tirages ==
    [][(pc = "demarrage" /\ pc' = "envoi_principale") =>
          /\ Len(tirages') = 2
          /\ tirages'[1] \in Permutations_de(Range(liste_joueurs))
          /\ tirages'[2] \in Permutations_de(Range(liste_joueurs))
          /\ liste_joueurs' = tirages'[1]
          /\ \E i \in 0..(Len(departs) - Len(liste_joueurs)) :
                \A n \in 1..Len(tirages'[2]) :
                    joueurs'[tirages'[2][n]].coordonnees = departs[i + n]]_vars
\* the first to play stands on the last position handed out
C15_temoin ==
    /\ pc = "envoi_principale"
    /\ Len(tirages) = 2
    /\ Len(liste_joueurs) = 3
    /\ liste_joueurs = tirages[1]
    /\ tirages[1] # tirages[2]
    /\ joueurs[liste_joueurs[1]].coordonnees = departs[3]

(***************************************************************************)
(* lib/regle.py taken alone: an Etat is built from a grid around a player, *)
(* a direction, a transformation and some opponents, and verifier_regles   *)
(* is called on it once.                                                   *)
(***************************************************************************)
\* the player of the Etat, and the cells next to him
joueur_verifie == [coordonnees |-> <<1, 1>>]
voisines ==
    {<<joueur_verifie.coordonnees[1] + d[1], joueur_verifie.coordonnees[2] + d[2]>> :
        d \in directions}
\* the grids: any Decrypte element, or none, on each neighbouring cell
grilles_verifiees == UNION {[S -> Decrypte] : S \in SUBSET voisines}
\* the lists of opponents, each of them on a neighbouring cell
adversaires_verifies ==
    UNION {[1..n -> voisines] : n \in 0..MaxAdversaires}
transformations == {"None"} \cup {transformer_de(t) : t \in Range(touches_transformation)}

InitRegles ==
    /\ mode = debut_de_partie
    /\ grille = grille_de(Carte)
    /\ departs = <<>>
    /\ dict_client_joueur = <<>>
    /\ liste_joueurs = <<>>
    /\ joueurs = <<>>
    /\ joueur_courant = 0
    /\ vainqueur = 0
    /\ datagrammes = <<>>
    /\ pc = "attente"
    /\ connexion_autorisee = FALSE
    /\ connexion = [c \in Clients |-> "attendue"]
    /\ issue = ""
    /\ retour = 0
    /\ erreur = ""
    /\ emetteur_courant = ""
    /\ expedies = <<>>
    /\ acceptees = <<>>
    /\ tirages = <<>>
    /\ \E direction \in directions, transformation \in transformations,
          g \in grilles_verifiees, adversaires \in adversaires_verifies :
           etat_verifie = Etat(direction, transformation, g, joueur_verifie, adversaires)
    /\ exception_levee = sans_verdict
    /\ messages = <<>>
    /\ verrou = "libre"
    /\ dormeurs = {}
    /\ fil = <<>>
    /\ a_envoyer = <<>>
    /\ envoyes = <<>>
    /\ recus = <<>>
    /\ receptions = <<>>
    /\ compteur = 1
    /\ nom_attribue = <<>>
    /\ saisie_client = <<>>
    /\ commandes_extraites = <<>>
    /\ carte_lue = <<>>
    /\ departs_determines = <<>>
    /\ schema_parametre = FALSE
    /\ validation_schema = ""
    /\ validation_erreur = ""
    /\ mode_validateur = 1
    /\ valide = "non_lie"
    /\ transmis = <<>>
    /\ imprimes = <<>>
    /\ traitees = <<>>
    /\ etat_client = "boucle"
    /\ iterations = 0
    /\ en_attente = 0
    /\ effaces = {}

\* verifier_regles(etat_verifie): the call returns, or an exception leaves it
verifier ==
    /\ exception_levee = sans_verdict
    /\ exception_levee' \in verifier_regles(etat_verifie)
    /\ UNCHANGED <<plateau, serveur, etat_verifie, messagerie, ecoute, noms, extraction, cartographie, client, boucle, remises>>

NextRegles == verifier

SpecRegles == InitRegles /\ [][NextRegles]_vars

\* an opponent stands on the cell the Etat is about
occupe(etat) ==
    \E i \in 1..Len(etat.coordonnees_adversaires) :
        etat.coordonnees_adversaires[i] = etat.coordonnees_obstacle

(***************************************************************************)
(* C16: a plain movement breaks the rules (HorsRegles) when the element it *)
(* goes to is not Traversable or when an opponent stands on it; otherwise  *)
(* it wins the game (PartieGagnee) when the element is Gagnable; otherwise *)
(* it passes.  The two violations are looked at before the win: an exit an *)
(* opponent stands on gives HorsRegles, never PartieGagnee.                *)
(***************************************************************************)
C16_enonce ==
    (exception_levee # sans_verdict /\ etat_verifie.transformation = "None")
        => exception_levee.exception =
               IF etat_verifie.obstacle \notin Traversable \/ occupe(etat_verifie)
               THEN "HorsRegles"
               ELSE IF etat_verifie.obstacle \in Gagnable THEN "PartieGagnee"
               ELSE "None"

(***************************************************************************)
(* C17: a transformation is checked against the rules of transformations   *)
(* only: it breaks the rules (HorsRegles) exactly when an opponent stands  *)
(* on the element or when the element is not of the family asked for; it   *)
(* never wins the game, and an element that is not Traversable is no       *)
(* reason to refuse it.                                                    *)
(***************************************************************************)
C17_transformation ==
    (exception_levee # sans_verdict /\ etat_verifie.transformation # "None")
        => /\ exception_levee.exception # "PartieGagnee"
           /\ exception_levee.exception =
                  IF occupe(etat_verifie)
                     \/ etat_verifie.obstacle \notin famille(etat_verifie.transformation)
                  THEN "HorsRegles"
                  ELSE "None"
\* a wall, which is not Traversable, is pierced with nobody on it
C17_temoin ==
    /\ etat_verifie.transformation = "Percable"
    /\ etat_verifie.obstacle = "Mur"
    /\ ~occupe(etat_verifie)
    /\ exception_levee = Passe

(***************************************************************************)
(* lib/messagerie.py, Messagerie taken alone: the RequestHandler threads   *)
(* call ajouter(), the main thread calls obtenir() in a loop.  The lock is *)
(* the one of the Condition nouveau_message.                               *)
(***************************************************************************)
Emetteurs == {"emetteur1", "emetteur2"}
recepteur == "recepteur"
Fils == Emetteurs \cup {recepteur}
\* the n messages a thread hands over, one call of ajouter() after the other
suite(emetteur, n) == [k \in 1..n |-> <<emetteur, k>>]
Enveloppes == {<<e, k>> : e \in Emetteurs, k \in 1..MaxMessages}

InitMessagerie ==
    /\ mode = debut_de_partie
    /\ grille = grille_de(Carte)
    /\ departs = <<>>
    /\ dict_client_joueur = <<>>
    /\ liste_joueurs = <<>>
    /\ joueurs = <<>>
    /\ joueur_courant = 0
    /\ vainqueur = 0
    /\ datagrammes = <<>>
    /\ pc = "attente"
    /\ connexion_autorisee = FALSE
    /\ connexion = [c \in Clients |-> "attendue"]
    /\ issue = ""
    /\ retour = 0
    /\ erreur = ""
    /\ emetteur_courant = ""
    /\ expedies = <<>>
    /\ acceptees = <<>>
    /\ tirages = <<>>
    /\ etat_verifie = <<>>
    /\ exception_levee = sans_verdict
    /\ messages = <<>>
    /\ verrou = "libre"
    /\ dormeurs = {}
    /\ fil = [f \in Fils |-> "repos"]
    /\ \E n \in [Emetteurs -> 0..MaxMessages] :
           a_envoyer = [e \in Emetteurs |-> suite(e, n[e])]
    /\ envoyes = <<>>
    /\ recus = <<>>
    /\ receptions = <<>>
    /\ compteur = 1
    /\ nom_attribue = <<>>
    /\ saisie_client = <<>>
    /\ commandes_extraites = <<>>
    /\ carte_lue = <<>>
    /\ departs_determines = <<>>
    /\ schema_parametre = FALSE
    /\ validation_schema = ""
    /\ validation_erreur = ""
    /\ mode_validateur = 1
    /\ valide = "non_lie"
    /\ transmis = <<>>
    /\ imprimes = <<>>
    /\ traitees = <<>>
    /\ etat_client = "boucle"
    /\ iterations = 0
    /\ en_attente = 0
    /\ effaces = {}

\* ajouter(), with cls.nouveau_message: the lock is taken
ajouter_entrer(e) ==
    /\ fil[e] = "repos"
    /\ a_envoyer[e] # <<>>
    /\ verrou = "libre"
    /\ verrou' = e
    /\ fil' = [fil EXCEPT ![e] = "append"]
    /\ UNCHANGED <<plateau, serveur, regles, messages, dormeurs, a_envoyer, envoyes, recus,
                   ecoute,
                   noms,
                   extraction, cartographie, client, boucle, remises>>
\* variant: the message is put at the head of the list
ajouter_append_en_tete(e) ==
    /\ fil[e] = "append"
    /\ messages' = <<Head(a_envoyer[e])>> \o messages
    /\ envoyes' = Append(envoyes, Head(a_envoyer[e]))
    /\ a_envoyer' = [a_envoyer EXCEPT ![e] = Tail(@)]
    /\ fil' = [fil EXCEPT ![e] = "notify"]
    /\ UNCHANGED <<plateau, serveur, regles, verrou, dormeurs, recus,
                   ecoute,
                   noms,
                   extraction, cartographie, client, boucle, remises>>
\* cls.messages.append(message)
ajouter_append(e) ==
    /\ fil[e] = "append"
    /\ messages' = Append(messages, Head(a_envoyer[e]))
    /\ envoyes' = Append(envoyes, Head(a_envoyer[e]))
    /\ a_envoyer' = [a_envoyer EXCEPT ![e] = Tail(@)]
    /\ fil' = [fil EXCEPT ![e] = "notify"]
    /\ UNCHANGED <<plateau, serveur, regles, verrou, dormeurs, recus,
                   ecoute,
                   noms,
                   extraction, cartographie, client, boucle, remises>>
\* variant: nobody is woken up
ajouter_sans_notify(e) ==
    /\ fil[e] = "notify"
    /\ fil' = [fil EXCEPT ![e] = "sortie"]
    /\ UNCHANGED <<plateau, serveur, regles, messages, verrou, dormeurs, a_envoyer,
                   envoyes, recus,
                   ecoute,
                   noms,
                   extraction, cartographie, client, boucle, remises>>
\* cls.nouveau_message.notify(): one of the threads in wait(), if any, is woken up
ajouter_notify(e) ==
    /\ fil[e] = "notify"
    /\ IF dormeurs = {}
       THEN dormeurs' = dormeurs
       ELSE \E d \in dormeurs : dormeurs' = dormeurs \ {d}
    /\ fil' = [fil EXCEPT ![e] = "sortie"]
    /\ UNCHANGED <<plateau, serveur, regles, messages, verrou, a_envoyer, envoyes, recus,
                   ecoute,
                   noms,
                   extraction, cartographie, client, boucle, remises>>
\* the end of the with block: the lock is given back and ajouter() returns
ajouter_sortir(e) ==
    /\ fil[e] = "sortie"
    /\ verrou' = "libre"
    /\ fil' = [fil EXCEPT ![e] = "repos"]
    /\ UNCHANGED <<plateau, serveur, regles, messages, dormeurs, a_envoyer, envoyes, recus,
                   ecoute,
                   noms,
                   extraction, cartographie, client, boucle, remises>>

\* obtenir(), with cls.nouveau_message: the lock is taken
obtenir_entrer ==
    /\ fil[recepteur] = "repos"
    /\ verrou = "libre"
    /\ verrou' = recepteur
    /\ fil' = [fil EXCEPT ![recepteur] = "test"]
    /\ UNCHANGED <<plateau, serveur, regles, messages, dormeurs, a_envoyer, envoyes, recus,
                   ecoute,
                   noms,
                   extraction, cartographie, client, boucle, remises>>
\* while not len(cls.messages)
obtenir_tester ==
    /\ fil[recepteur] = "test"
    /\ fil' = [fil EXCEPT ![recepteur] = IF Len(messages) = 0 THEN "wait" ELSE "pop"]
    /\ UNCHANGED <<plateau, serveur, regles, messages, verrou, dormeurs, a_envoyer,
                   envoyes, recus,
                   ecoute,
                   noms,
                   extraction, cartographie, client, boucle, remises>>
\* cls.nouveau_message.wait(): the lock is given back and the thread sleeps
obtenir_wait ==
    /\ fil[recepteur] = "wait"
    /\ verrou' = "libre"
    /\ dormeurs' = dormeurs \cup {recepteur}
    /\ fil' = [fil EXCEPT ![recepteur] = "endormi"]
    /\ UNCHANGED <<plateau, serveur, regles, messages, a_envoyer, envoyes, recus,
                   ecoute,
                   noms,
                   extraction, cartographie, client, boucle, remises>>
\* wait() returns: the thread was notified and takes the lock again
obtenir_reveil ==
    /\ fil[recepteur] = "endormi"
    /\ recepteur \notin dormeurs
    /\ verrou = "libre"
    /\ verrou' = recepteur
    /\ fil' = [fil EXCEPT ![recepteur] = "test"]
    /\ UNCHANGED <<plateau, serveur, regles, messages, dormeurs, a_envoyer, envoyes, recus,
                   ecoute,
                   noms,
                   extraction, cartographie, client, boucle, remises>>
\* variant: the newest message is taken
obtenir_pop_dernier ==
    /\ fil[recepteur] = "pop"
    /\ messages # <<>>
    /\ recus' = Append(recus, messages[Len(messages)])
    /\ messages' = SubSeq(messages, 1, Len(messages) - 1)
    /\ fil' = [fil EXCEPT ![recepteur] = "sortie"]
    /\ UNCHANGED <<plateau, serveur, regles, verrou, dormeurs, a_envoyer, envoyes,
                   ecoute,
                   noms,
                   extraction, cartographie, client, boucle, remises>>
\* cls.messages.pop(0)
obtenir_pop ==
    /\ fil[recepteur] = "pop"
    /\ messages # <<>>
    /\ recus' = Append(recus, Head(messages))
    /\ messages' = Tail(messages)
    /\ fil' = [fil EXCEPT ![recepteur] = "sortie"]
    /\ UNCHANGED <<plateau, serveur, regles, verrou, dormeurs, a_envoyer, envoyes,
                   ecoute,
                   noms,
                   extraction, cartographie, client, boucle, remises>>
\* cls.messages.pop(0) on a list that effacer() has emptied since the test of
\* the while: IndexError leaves the with block, which gives the lock back
obtenir_pop_vide ==
    /\ fil[recepteur] = "pop"
    /\ messages = <<>>
    /\ verrou' = "libre"
    /\ fil' = [fil EXCEPT ![recepteur] = "plante"]
    /\ UNCHANGED <<plateau, serveur, regles, messages, dormeurs, a_envoyer, envoyes, recus,
                   ecoute,
                   noms,
                   extraction, cartographie, client, boucle, remises>>
\* the end of the with block: the lock is given back and obtenir() returns
obtenir_sortir ==
    /\ fil[recepteur] = "sortie"
    /\ verrou' = "libre"
    /\ fil' = [fil EXCEPT ![recepteur] = "repos"]
    /\ UNCHANGED <<plateau, serveur, regles, messages, dormeurs, a_envoyer, envoyes, recus,
                   ecoute,
                   noms,
                   extraction, cartographie, client, boucle, remises>>

\* Messagerie.effacer(): cls.messages.clear(), by any thread at any moment,
\* the lock is not taken
effacer ==
    /\ messages' = <<>>
    /\ effaces' = effaces \cup {"Messagerie"}
    /\ UNCHANGED <<plateau, serveur, regles, verrou, dormeurs, fil, a_envoyer, envoyes, recus,
                   ecoute,
                   noms,
                   extraction, cartographie, client, boucle>>

NextMessagerie ==
    \/ \E e \in Emetteurs : ajouter_entrer(e)
    \/ \E e \in Emetteurs : ajouter_append(e)
    \/ \E e \in Emetteurs : ajouter_notify(e)
    \/ \E e \in Emetteurs : ajouter_sortir(e)
    \/ obtenir_entrer
    \/ obtenir_tester
    \/ obtenir_wait
    \/ obtenir_reveil
    \/ obtenir_pop
    \/ obtenir_pop_vide
    \/ obtenir_sortir
    \/ effacer

\* a thread that can run is run in the end
Equite ==
    /\ \A e \in Emetteurs :
           /\ WF_vars(ajouter_entrer(e))
           /\ WF_vars(ajouter_append(e))
           /\ WF_vars(ajouter_notify(e))
           /\ WF_vars(ajouter_sortir(e))
    /\ WF_vars(obtenir_entrer)
    /\ WF_vars(obtenir_tester)
    /\ WF_vars(obtenir_wait)
    /\ WF_vars(obtenir_reveil)
    /\ WF_vars(obtenir_pop)
    /\ WF_vars(obtenir_pop_vide)
    /\ WF_vars(obtenir_sortir)

SpecMessagerie == InitMessagerie /\ [][NextMessagerie]_vars /\ Equite

\* nobody has called Messagerie.effacer(): only ajouter() and obtenir() have
\* touched the list
sans_effacer == "Messagerie" \notin effaces
\* the threads that hand over at least one message
actifs ==
    {e \in Emetteurs : a_envoyer[e] # <<>> \/ \E i \in 1..Len(envoyes) : envoyes[i][1] = e}
\* the messages of l that come from e, in the order of l
de(l, e) == SelectSeq(l, LAMBDA m : m[1] = e)

(***************************************************************************)
(* C18: one thread calls ajouter() for a sequence of messages while one    *)
(* thread calls obtenir(), in any interleaving: what obtenir() returns is, *)
(* in order, what was handed to ajouter(); obtenir() always returns the    *)
(* oldest message of the list and never returns while the list is empty.   *)
(* These two threads are the only users: nobody calls effacer().           *)
(***************************************************************************)
C18_un_emetteur ==
    /\ []((sans_effacer /\ Cardinality(actifs) = 1) =>
             \A e \in actifs :
                 /\ envoyes \o a_envoyer[e] = suite(e, Len(envoyes) + Len(a_envoyer[e]))
                 /\ recus \o messages = envoyes)
    /\ [][(sans_effacer /\ Cardinality(actifs) = 1 /\ recus' # recus) =>
             /\ messages # <<>>
             /\ recus' = Append(recus, Head(messages))
             /\ messages' = Tail(messages)]_vars
\* the only sender has handed over all its messages and all were returned
C18_temoin ==
    /\ sans_effacer
    /\ actifs = {"emetteur1"}
    /\ Len(recus) = MaxMessages
    /\ recus = envoyes
    /\ a_envoyer["emetteur1"] = <<>>

(***************************************************************************)
(* C19: several threads call ajouter() while one thread calls obtenir():   *)
(* every message handed over is returned once and only once, and the       *)
(* messages of one sender are returned in the order that sender handed     *)
(* them over, whatever the order between the senders.  These threads are   *)
(* the only users: nobody calls effacer().                                 *)
(***************************************************************************)
C19_plusieurs_emetteurs ==
    /\ [](sans_effacer =>
             /\ \A i, j \in 1..Len(recus) : recus[i] = recus[j] => i = j
             /\ \A i \in 1..Len(recus) : \E j \in 1..Len(envoyes) : recus[i] = envoyes[j]
             /\ \A e \in Emetteurs : de(recus, e) = suite(e, Len(de(recus, e))))
    /\ \A m \in Enveloppes :
           (\E i \in 1..Len(envoyes) : envoyes[i] = m)
               ~> (~sans_effacer \/ \E i \in 1..Len(recus) : recus[i] = m)
\* the messages of the two senders were returned crossed
C19_temoin ==
    /\ sans_effacer
    /\ Len(recus) >= 3
    /\ recus[1] = <<"emetteur2", 1>>
    /\ recus[2] = <<"emetteur1", 1>>
    /\ recus[3] = <<"emetteur2", 2>>

(***************************************************************************)
(* C20: the Messagerie never blocks for ever: the thread that sleeps in    *)
(* obtenir() on an empty list does not hold the lock, so every call of     *)
(* ajouter() ends; and, the threads being run fairly, the thread that      *)
(* sleeps in obtenir() returns once a message has been handed over and     *)
(* nobody calls effacer().                                                 *)
(***************************************************************************)
C20_sans_blocage ==
    /\ [](fil[recepteur] = "endormi" => verrou # recepteur)
    /\ \A e \in Emetteurs, n \in 1..(MaxMessages + 1) :
           (Len(a_envoyer[e]) = n) ~> (Len(a_envoyer[e]) < n /\ fil[e] = "repos")
    /\ \A n \in 0..(2 * (MaxMessages + 1)) :
           (fil[recepteur] = "endormi" /\ messages # <<>> /\ Len(recus) = n)
               ~> (~sans_effacer \/ (fil[recepteur] = "repos" /\ Len(recus) > n))
\* the thread that calls obtenir() still sleeps, a message is in the list and
\* the thread that put it there still holds the lock
C20_temoin ==
    /\ sans_effacer
    /\ fil[recepteur] = "endormi"
    /\ recepteur \notin dormeurs
    /\ messages # <<>>
    /\ verrou \in Emetteurs

(***************************************************************************)
(* interface_serveur.py taken alone: the thread Serveur lets connections   *)
(* in, and each RequestHandler thread runs setup(), handle() and finish()  *)
(* (socketserver.BaseRequestHandler: setup, then handle, finish in the     *)
(* finally clause).  The main thread only closes the door.                 *)
(***************************************************************************)
\* what one call of recevoir() can do: return an object or raise
Receptions ==
    {[issue |-> "objet", objet |-> <<"commande", <<"E">> >>],
     [issue |-> "objet", objet |-> <<"commande">>],
     [issue |-> "objet", objet |-> <<"quitte", "None">>],
     [issue |-> "objet", objet |-> <<"nouveau_joueur", "None">>],
     [issue |-> "objet_non_iterable", objet |-> <<>>],
     [issue |-> "TypeError", objet |-> <<>>],
     [issue |-> "ConnectionFermee", objet |-> <<>>],
     [issue |-> "ConnectionResetError", objet |-> <<>>],
     [issue |-> "ConnectionAbortedError", objet |-> <<>>],
     [issue |-> "OSError", objet |-> <<>>],
     [issue |-> "autre exception", objet |-> <<>>]}
\* except TypeError: continue (raised by recevoir(), or by * on an object
\* that is not iterable)
ignorees == {"TypeError", "objet_non_iterable"}
\* Messagerie.ajouter(message), taken as one step
ajouter(message) ==
    /\ messages' = Append(messages, message)
    /\ envoyes' = Append(envoyes, message)

InitEcoute ==
    /\ mode = debut_de_partie
    /\ grille = grille_de(Carte)
    /\ departs = <<>>
    /\ dict_client_joueur = <<>>
    /\ liste_joueurs = <<>>
    /\ joueurs = <<>>
    /\ joueur_courant = 0
    /\ vainqueur = 0
    /\ datagrammes = <<>>
    /\ pc = "attente"
    /\ connexion_autorisee = TRUE
    /\ connexion = [c \in Clients |-> "attendue"]
    /\ issue = ""
    /\ retour = 0
    /\ erreur = ""
    /\ emetteur_courant = ""
    /\ expedies = <<>>
    /\ acceptees = <<>>
    /\ tirages = <<>>
    /\ etat_verifie = <<>>
    /\ exception_levee = sans_verdict
    /\ messages = <<>>
    /\ verrou = "libre"
    /\ dormeurs = {}
    /\ fil = [e \in Emetteurs |-> "attendue"]
    /\ a_envoyer = <<>>
    /\ envoyes = <<>>
    /\ recus = <<>>
    /\ receptions = [e \in Emetteurs |-> <<>>]
    /\ compteur = 1
    /\ nom_attribue = [e \in Emetteurs |-> ""]
    /\ saisie_client = <<>>
    /\ commandes_extraites = <<>>
    /\ carte_lue = <<>>
    /\ departs_determines = <<>>
    /\ schema_parametre = FALSE
    /\ validation_schema = ""
    /\ validation_erreur = ""
    /\ mode_validateur = 1
    /\ valide = "non_lie"
    /\ transmis = <<>>
    /\ imprimes = <<>>
    /\ traitees = <<>>
    /\ etat_client = "boucle"
    /\ iterations = 0
    /\ en_attente = 0
    /\ effaces = {}

\* serveur.connexion_autorisee = False, by the main thread
interdire ==
    /\ connexion_autorisee
    /\ connexion_autorisee' = FALSE
    /\ UNCHANGED <<plateau, pc, connexion, issue, retour, erreur, acceptees, tirages,
                   regles, messagerie, ecoute, noms,
                   emetteur_courant, expedies, extraction, cartographie, client, boucle, remises>>
\* verify_request(): the connection is let in (a RequestHandler thread is
\* started) or turned away
verify_request(e) ==
    /\ fil[e] = "attendue"
    /\ fil' = [fil EXCEPT ![e] = IF connexion_autorisee THEN "init" ELSE "refusee"]
    /\ UNCHANGED <<plateau, serveur, regles, messages, verrou, dormeurs, a_envoyer,
                   envoyes, recus, ecoute,
                   noms,
                   extraction, cartographie, client, boucle, remises>>
\* RequestHandler.__init__, in the new thread: next(compter) is called; a
\* generator that another thread is running raises ValueError, which ends
\* the thread before setup()
init_compter(e) ==
    /\ fil[e] = "init"
    /\ fil' = [fil EXCEPT ![e] = IF \E f \in Emetteurs : fil[f] = "compte"
                                 THEN "avortee" ELSE "compte"]
    /\ UNCHANGED <<plateau, serveur, regles, messages, verrou, dormeurs, a_envoyer,
                   envoyes, recus, ecoute, noms,
                   extraction, cartographie, client, boucle, remises>>
\* ... next(compter) returns: self.nom_joueur = "Joueur-" + str(...)
init_nommer(e) ==
    /\ fil[e] = "compte"
    /\ nom_attribue' = [nom_attribue EXCEPT ![e] = <<"Joueur-", compteur>>]
    /\ compteur' = compteur + 1
    /\ fil' = [fil EXCEPT ![e] = "setup"]
    /\ UNCHANGED <<plateau, serveur, regles, messages, verrou, dormeurs, a_envoyer,
                   envoyes, recus, ecoute,
                   extraction, cartographie, client, boucle, remises>>
\* variant: setup() puts the client in the turn order itself
setup_inscrit(e) ==
    /\ fil[e] = "setup"
    /\ ajouter(<<e, "nouveau_joueur", "None">>)
    /\ liste_joueurs' = Append(liste_joueurs, e)
    /\ fil' = [fil EXCEPT ![e] = "handle"]
    /\ UNCHANGED <<mode, grille, departs, dict_client_joueur, joueurs, joueur_courant,
                   vainqueur, datagrammes, serveur, regles, verrou, dormeurs, a_envoyer,
                   recus, ecoute, noms, extraction, cartographie, client, boucle, remises>>
\* RequestHandler.setup()
setup(e) ==
    /\ fil[e] = "setup"
    /\ ajouter(<<e, "nouveau_joueur", "None">>)
    /\ fil' = [fil EXCEPT ![e] = "handle"]
    /\ UNCHANGED <<plateau, serveur, regles, verrou, dormeurs, a_envoyer, recus, ecoute,
                   noms,
                   extraction, cartographie, client, boucle, remises>>
\* variant: a payload that cannot be read ends the loop
handle_sans_reprise(e, r) ==
    /\ fil[e] = "handle"
    /\ Len(receptions[e]) < MaxReceptions
    /\ receptions' = [receptions EXCEPT ![e] = Append(@, r)]
    /\ IF r.issue = "objet"
       THEN ajouter(<<e>> \o r.objet) /\ fil' = fil
       ELSE /\ fil' = [fil EXCEPT ![e] = "finish"]
            /\ UNCHANGED <<messages, envoyes>>
    /\ UNCHANGED <<plateau, serveur, regles, verrou, dormeurs, a_envoyer, recus,
                   noms,
                   extraction, cartographie, client, boucle, remises>>
\* RequestHandler.handle(), one turn of its loop: recevoir() gives r
handle(e, r) ==
    /\ fil[e] = "handle"
    /\ Len(receptions[e]) < MaxReceptions
    /\ receptions' = [receptions EXCEPT ![e] = Append(@, r)]
    /\ IF r.issue = "objet"
       THEN ajouter(<<e>> \o r.objet) /\ fil' = fil
       ELSE IF r.issue \in ignorees
       THEN UNCHANGED <<fil, messages, envoyes>>
       ELSE /\ fil' = [fil EXCEPT ![e] = "finish"]
            /\ UNCHANGED <<messages, envoyes>>
    /\ UNCHANGED <<plateau, serveur, regles, verrou, dormeurs, a_envoyer, recus,
                   noms,
                   extraction, cartographie, client, boucle, remises>>
\* RequestHandler.finish(), then the thread ends
finish(e) ==
    /\ fil[e] = "finish"
    /\ ajouter(<<e, "quitte", "None">>)
    /\ fil' = [fil EXCEPT ![e] = "termine"]
    /\ UNCHANGED <<plateau, serveur, regles, verrou, dormeurs, a_envoyer, recus, ecoute,
                   noms,
                   extraction, cartographie, client, boucle, remises>>

NextEcoute ==
    \/ interdire
    \/ \E e \in Emetteurs : verify_request(e)
    \/ \E e \in Emetteurs : init_compter(e)
    \/ \E e \in Emetteurs : init_nommer(e)
    \/ \E e \in Emetteurs : setup(e)
    \/ \E e \in Emetteurs, r \in Receptions : handle(e, r)
    \/ \E e \in Emetteurs : finish(e)

SpecEcoute == InitEcoute /\ [][NextEcoute]_vars

\* the last thing recevoir() gave to e
derniere(e) == receptions[e][Len(receptions[e])]
\* recevoir() has just given something to e
vient_de_recevoir(e) == Len(receptions'[e]) = Len(receptions[e]) + 1

(***************************************************************************)
(* C21: the messages the RequestHandler of a connection hands to the       *)
(* Messagerie begin with one and only one 'nouveau_joueur', end with one   *)
(* and only one 'quitte', and nothing follows the 'quitte'; the 'quitte'   *)
(* is handed over however the thread leaves handle().                      *)
(***************************************************************************)
C21_enonce ==
    \A e \in Emetteurs :
        LET s == de(envoyes, e)
        IN  /\ s # <<>> => s[1][2] = "nouveau_joueur"
            /\ \A i \in 2..Len(s) : s[i][2] # "nouveau_joueur"
            /\ \A i \in 1..Len(s) : s[i][2] = "quitte" => (i = Len(s) /\ fil[e] = "termine")
            /\ fil[e] = "termine" => (s # <<>> /\ s[Len(s)][2] = "quitte")

(***************************************************************************)
(* C22: a payload that cannot be read is an error of its connection only:  *)
(* the RequestHandler of that connection hands over 'quitte' and ends, and *)
(* no other RequestHandler is touched.                                     *)
(***************************************************************************)
C22_enonce ==
    [][\A e \in Emetteurs :
          (vient_de_recevoir(e) /\ derniere(e)'.issue = "TypeError")
              => fil'[e] = "finish"]_vars
\* C22 as the code has it: the payload is dropped, the RequestHandler stays
\* in its loop and hands nothing over, and no other RequestHandler is touched
C22_charge_ignoree ==
    [][\A e \in Emetteurs :
          (vient_de_recevoir(e) /\ derniere(e)'.issue \in ignorees)
              => /\ fil'[e] = "handle"
                 /\ envoyes' = envoyes
                 /\ \A f \in Emetteurs \ {e} :
                        fil'[f] = fil[f] /\ receptions'[f] = receptions[f]]_vars
\* a payload was dropped, and a command received after it was handed over
C22_temoin ==
    \E e \in Emetteurs :
        /\ Len(receptions[e]) = 2
        /\ receptions[e][1].issue = "TypeError"
        /\ receptions[e][2].objet = <<"commande", <<"E">> >>
        /\ fil[e] = "handle"
        /\ de(envoyes, e) = << <<e, "nouveau_joueur", "None">>, <<e, "commande", <<"E">> >> >>

(***************************************************************************)
(* C23: the main thread never fails: whatever the order of the             *)
(* connections, the departures and the messages (a client may connect      *)
(* while the game fills up or just as it starts), every message taken from *)
(* the Messagerie is handled without an exception that nobody catches, and *)
(* the main loop is left only once the game is in fin_de_partie.           *)
(***************************************************************************)
C23_enonce ==
    /\ pc # "plante"
    /\ pc \in {"fin", "envoi_fin", "arret"} => mode = fin_de_partie

(***************************************************************************)
(* C24: the Labyrinthe is read and changed by the main thread only: the    *)
(* RequestHandler threads and the thread Serveur never call it and never   *)
(* touch its players, its turn order, its grid or its mode; all they do to *)
(* what the threads share is to hand messages to the Messagerie.           *)
(***************************************************************************)
C24_enonce ==
    [][(fil' # fil \/ receptions' # receptions)
          => /\ UNCHANGED <<plateau, pc, connexion, issue, retour, erreur, compteur>>
             /\ \/ messages' = messages
                \/ \E e \in Emetteurs :
                       /\ Len(messages') = Len(messages) + 1
                       /\ messages' = Append(messages, messages'[Len(messages')])
                       /\ messages'[Len(messages')][1] = e]_vars
\* C24 as the code has it: the threads leave the Labyrinthe and the main
\* thread alone, and besides the Messagerie they share the counter of names
C24_fils_sans_labyrinthe ==
    [][(fil' # fil \/ receptions' # receptions)
          => /\ UNCHANGED <<plateau, pc, connexion, issue, retour, erreur>>
             /\ compteur' \in {compteur, compteur + 1}
             /\ \/ messages' = messages
                \/ \E e \in Emetteurs :
                       /\ Len(messages') = Len(messages) + 1
                       /\ messages' = Append(messages, messages'[Len(messages')])
                       /\ messages'[Len(messages')][1] = e]_vars
\* the two RequestHandler threads have run to their end and the Labyrinthe
\* is as it was built
C24_temoin ==
    /\ \A e \in Emetteurs : fil[e] = "termine"
    /\ Len(messages) >= 4
    /\ compteur = 3
    /\ liste_joueurs = <<>>
    /\ dict_client_joueur = <<>>
    /\ mode = debut_de_partie

(***************************************************************************)
(* C25: when the client that connects cannot be added (no start position   *)
(* left, or the game has begun: _ajouter_joueur returns None), that client *)
(* and nobody else is sent a text that says why; it is not treated as a    *)
(* player: no welcome and no prompt to start the game go to it.            *)
(***************************************************************************)
C25_enonce ==
    [][(pc = "envoi_attente" /\ pc' = "attente" /\ retour = 0)
          => /\ \E i \in 1..Len(expedies') :
                    expedies'[i][1] = emetteur_courant /\ expedies'[i][2] = "affichage"
             /\ \A i \in 1..Len(expedies') :
                    /\ expedies'[i][1] = emetteur_courant
                    /\ expedies'[i] \notin Range(accueil(emetteur_courant))]_vars

(***************************************************************************)
(* lib/controle.py taken alone: extraire() is called once on a string.     *)
(***************************************************************************)
\* the characters the strings are made of: keys of movements and of
\* transformations, digits, and a character that is no key
Caracteres == {"N", "O", "M", "P", "0", "3", "?"}
Chaines == UNION {[1..n -> Caracteres] : n \in 0..MaxSaisie}

InitControle ==
    /\ mode = debut_de_partie
    /\ grille = grille_de(Carte)
    /\ departs = <<>>
    /\ dict_client_joueur = <<>>
    /\ liste_joueurs = <<>>
    /\ joueurs = <<>>
    /\ joueur_courant = 0
    /\ vainqueur = 0
    /\ datagrammes = <<>>
    /\ pc = "attente"
    /\ connexion_autorisee = FALSE
    /\ connexion = [c \in Clients |-> "attendue"]
    /\ issue = ""
    /\ retour = 0
    /\ erreur = ""
    /\ emetteur_courant = ""
    /\ expedies = <<>>
    /\ acceptees = <<>>
    /\ tirages = <<>>
    /\ etat_verifie = <<>>
    /\ exception_levee = sans_verdict
    /\ messages = <<>>
    /\ verrou = "libre"
    /\ dormeurs = {}
    /\ fil = <<>>
    /\ a_envoyer = <<>>
    /\ envoyes = <<>>
    /\ recus = <<>>
    /\ receptions = <<>>
    /\ compteur = 1
    /\ nom_attribue = <<>>
    /\ saisie_client \in Chaines
    /\ commandes_extraites = <<>>
    /\ carte_lue = <<>>
    /\ departs_determines = <<>>
    /\ schema_parametre = FALSE
    /\ validation_schema = ""
    /\ validation_erreur = ""
    /\ mode_validateur = 1
    /\ valide = "non_lie"
    /\ transmis = <<>>
    /\ imprimes = <<>>
    /\ traitees = <<>>
    /\ etat_client = "boucle"
    /\ iterations = 0
    /\ en_attente = 0
    /\ effaces = {}

\* commandes = extraire(saisie)
extraire_saisie ==
    /\ commandes_extraites = <<>>
    /\ commandes_extraites' = <<extraire(saisie_client)>>
    /\ UNCHANGED <<plateau, serveur, regles, messagerie, ecoute, noms, saisie_client,
                   cartographie, client, boucle, remises>>

NextControle == extraire_saisie

SpecControle == InitControle /\ [][NextControle]_vars

\* validation_controle, read as a grammar: a token is a key of movement and
\* digits, or a key of transformation and a key of movement
est_jeton(t) ==
    \/ /\ t[1] \in Range(touches_mouvement)
       /\ \A i \in 2..Len(t) : t[i] \in chiffres
    \/ /\ Len(t) = 2
       /\ t[1] \in Range(touches_transformation)
       /\ t[2] \in Range(touches_mouvement)
\* the ways to cut s into tokens: none when s does not match the grammar
RECURSIVE decoupages(_)
decoupages(s) ==
    IF s = <<>> THEN {<<>>}
    ELSE UNION {{<<SubSeq(s, 1, n)>> \o d : d \in decoupages(SubSeq(s, n + 1, Len(s)))} :
                   n \in {k \in 1..Len(s) : est_jeton(SubSeq(s, 1, k))}}
conforme(s) == s # <<>> /\ decoupages(s) # {}
\* what a token stands for
expansion(t) ==
    IF t[1] \in Range(touches_transformation) THEN <<t>>
    ELSE IF Len(t) = 1 THEN << <<t[1]>> >>
    ELSE repeter(<<t[1]>>, entier(Tail(t)))
RECURSIVE expansions(_)
expansions(d) == IF d = <<>> THEN <<>> ELSE expansion(d[1]) \o expansions(Tail(d))
\* the tokens found in a string that need not match the grammar, by where they
\* begin: a key of transformation followed by a key of movement, and any other
\* key of movement with all the digits that follow it
debut_transformation(s, p) ==
    /\ s[p] \in Range(touches_transformation)
    /\ p < Len(s)
    /\ s[p + 1] \in Range(touches_mouvement)
debut_mouvement(s, p) ==
    /\ s[p] \in Range(touches_mouvement)
    /\ ~(p > 1 /\ debut_transformation(s, p - 1))
jeton_en(s, p) ==
    IF debut_transformation(s, p) THEN SubSeq(s, p, p + 1)
    ELSE <<s[p]>> \o prefixe_chiffres(SubSeq(s, p + 1, Len(s)))
RECURSIVE jetons_depuis(_, _)
jetons_depuis(s, p) ==
    IF p > Len(s) THEN <<>>
    ELSE IF debut_transformation(s, p) \/ debut_mouvement(s, p)
    THEN <<jeton_en(s, p)>> \o jetons_depuis(s, p + 1)
    ELSE jetons_depuis(s, p + 1)

(***************************************************************************)
(* C26: for every string that matches the grammar                          *)
(* (movement digits? | transformation movement)+, extraire() returns the   *)
(* expansions of its tokens put end to end in order: a key of movement     *)
(* alone gives one command, followed by the number n it gives n times that *)
(* key (nothing when n = 0), and a transformation gives one command of two *)
(* characters.                                                             *)
(***************************************************************************)
C26_extraire_conforme ==
    (commandes_extraites # <<>> /\ conforme(saisie_client))
        => \A d \in decoupages(saisie_client) : commandes_extraites[1] = expansions(d)
\* "N3MO" gives N, N, N, MO
C26_temoin ==
    /\ saisie_client = <<"N", "3", "M", "O">>
    /\ commandes_extraites = << << <<"N">>, <<"N">>, <<"N">>, <<"M", "O">> >> >>

(***************************************************************************)
(* C27: a string of commands that does not match the validation regex as   *)
(* a whole counts as an empty list of commands: nothing is added to the    *)
(* commands of the sender and no player changes.                           *)
(***************************************************************************)
C27_enonce ==
    (commandes_extraites # <<>> /\ ~conforme(saisie_client))
        => commandes_extraites[1] = <<>>
\* C27 as the code has it: the characters that begin no token are dropped and
\* every token that is found is kept, in order
C27_jetons_gardes ==
    commandes_extraites # <<>>
        => commandes_extraites[1] = expansions(jetons_depuis(saisie_client, 1))
\* "N?MO" does not match and gives N, MO
C27_temoin ==
    /\ saisie_client = <<"N", "?", "M", "O">>
    /\ ~conforme(saisie_client)
    /\ commandes_extraites = << << <<"N">>, <<"M", "O">> >> >>

(***************************************************************************)
(* lib/labyrinthe.py taken alone: Labyrinthe(carte) builds the grid and    *)
(* determines the start positions of one map.                              *)
(***************************************************************************)
Symboles == {"U", " ", "O", "."}
Cartes ==
    UNION {[1..h -> [1..l -> Symboles]] : h \in 1..MaxLignes, l \in 1..MaxColonnes}

InitCarte ==
    /\ mode = debut_de_partie
    /\ grille = grille_de(Carte)
    /\ departs = <<>>
    /\ dict_client_joueur = <<>>
    /\ liste_joueurs = <<>>
    /\ joueurs = <<>>
    /\ joueur_courant = 0
    /\ vainqueur = 0
    /\ datagrammes = <<>>
    /\ pc = "attente"
    /\ connexion_autorisee = FALSE
    /\ connexion = [c \in Clients |-> "attendue"]
    /\ issue = ""
    /\ retour = 0
    /\ erreur = ""
    /\ emetteur_courant = ""
    /\ expedies = <<>>
    /\ acceptees = <<>>
    /\ tirages = <<>>
    /\ etat_verifie = <<>>
    /\ exception_levee = sans_verdict
    /\ messages = <<>>
    /\ verrou = "libre"
    /\ dormeurs = {}
    /\ fil = <<>>
    /\ a_envoyer = <<>>
    /\ envoyes = <<>>
    /\ recus = <<>>
    /\ receptions = <<>>
    /\ compteur = 1
    /\ nom_attribue = <<>>
    /\ saisie_client = <<>>
    /\ commandes_extraites = <<>>
    /\ carte_lue \in Cartes
    /\ departs_determines = <<>>
    /\ schema_parametre = FALSE
    /\ validation_schema = ""
    /\ validation_erreur = ""
    /\ mode_validateur = 1
    /\ valide = "non_lie"
    /\ transmis = <<>>
    /\ imprimes = <<>>
    /\ traitees = <<>>
    /\ etat_client = "boucle"
    /\ iterations = 0
    /\ en_attente = 0
    /\ effaces = {}

\* Labyrinthe.__init__: _creer_labyrinthe(carte) then _determiner_departs(),
\* shuffle() choosing the order inside each band
creer_labyrinthe ==
    /\ departs_determines = <<>>
    /\ \E d \in departs_possibles(determiner_bandes(grille_de(carte_lue), sorties_de(carte_lue))) :
           departs_determines' = <<d>>
    /\ UNCHANGED <<plateau, serveur, regles, messagerie, ecoute, noms, extraction, carte_lue,
                   client, boucle, remises>>

NextCarte == creer_labyrinthe

SpecCarte == InitCarte /\ [][NextCarte]_vars

\* the cells of the board of a map, between the two corners of its grid
plateau_de(chaine) ==
    LET dims == dimensionner(DOMAIN grille_de(chaine))
    IN  {<<x, y>> : x \in dims[1][1]..dims[2][1], y \in dims[1][2]..dims[2][2]}
\* what it costs to enter a cell, 0 when it cannot be entered
cout_entree(chaine, c) ==
    LET terrain == terrain_de(grille_de(chaine), c)
    IN  CASE terrain \in Demarrable \cup Traversable -> 1
          [] terrain \in Transformable \ Traversable /\ transformee(terrain) \in Traversable -> 2
          [] OTHER -> 0
\* no path: more than any path of the board costs
Infini == 2 * MaxLignes * MaxColonnes + 100
adjacentes(c, k) ==
    \/ c[1] = k[1] /\ (c[2] = k[2] + 1 \/ k[2] = c[2] + 1)
    \/ c[2] = k[2] /\ (c[1] = k[1] + 1 \/ k[1] = c[1] + 1)
\* one round of relaxation of the costs of the cheapest paths from the exits
relacher(chaine, dist) ==
    [c \in DOMAIN dist |->
        LET par_voisine == {dist[k] + cout_entree(chaine, c) :
                               k \in {v \in DOMAIN dist : /\ adjacentes(c, v)
                                                          /\ dist[v] < Infini
                                                          /\ cout_entree(chaine, c) > 0}}
        IN  Min({dist[c]} \cup par_voisine)]
RECURSIVE relacher_n(_, _, _)
relacher_n(chaine, dist, n) ==
    IF n = 0 THEN dist ELSE relacher_n(chaine, relacher(chaine, dist), n - 1)
\* the cost of the cheapest path from an exit to each cell of the board
eloignement(chaine) ==
    relacher_n(chaine,
               [c \in plateau_de(chaine) |-> IF c \in sorties_de(chaine) THEN 0 ELSE Infini],
               Cardinality(plateau_de(chaine)))

(***************************************************************************)
(* C28: for every map, each coordinate of departs is, in the grid or by    *)
(* default, a Demarrable element; no coordinate is there twice and none is *)
(* an exit.                                                                *)
(***************************************************************************)
C28_departs_demarrables ==
    departs_determines # <<>> =>
        LET d == departs_determines[1]
        IN  /\ \A i \in 1..Len(d) :
                  /\ terrain_de(grille_de(carte_lue), d[i]) \in Demarrable
                  /\ d[i] \notin sorties_de(carte_lue)
            /\ \A i, j \in 1..Len(d) : i # j => d[i] # d[j]
\* a map with an exit, a wall, a door and two start positions
C28_temoin ==
    /\ carte_lue = << <<"U", " ", "O">>, <<".", " ", "O">> >>
    /\ departs_determines # <<>>
    /\ Len(departs_determines[1]) = 2

(***************************************************************************)
(* C29: departs is in order of non-decreasing distance to the nearest      *)
(* exit, the distance being the cost of the cheapest path by the four      *)
(* neighbours from an exit (0): entering a Demarrable or a Traversable     *)
(* costs 1, entering a Transformable whose transformee is Traversable      *)
(* costs 2, nothing else is entered. A Demarrable cell of the board is in  *)
(* departs exactly when its distance is finite.                            *)
(***************************************************************************)
C29_departs_par_eloignement ==
    departs_determines # <<>> =>
        LET d == departs_determines[1]
            dist == eloignement(carte_lue)
        IN  /\ \A i \in 1..Len(d) : d[i] \in DOMAIN dist
            /\ \A i, j \in 1..Len(d) : i < j => dist[d[i]] <= dist[d[j]]
            /\ \A c \in plateau_de(carte_lue) :
                  terrain_de(grille_de(carte_lue), c) \in Demarrable
                      => (c \in Range(d) <=> dist[c] < Infini)
\* a start position behind a wall comes after one that is further in steps
C29_temoin ==
    /\ carte_lue = << <<"U", "O", " ">>, <<" ", " ", ".">> >>
    /\ departs_determines = << << <<0, 1>>, <<1, 1>>, <<2, 0>> >> >>

(***************************************************************************)
(* lib/labyrinthe.py taken alone: terminer() is called on a Labyrinthe     *)
(* that holds any players and any winner, then the datagrams are fetched.  *)
(***************************************************************************)
\* as many players as the map has start positions
places == Cardinality(UNION Range(determiner_bandes(grille_de(Carte), sorties_de(Carte))))
Inscriptions ==
    {s \in UNION {[1..n -> Clients] : n \in 0..places} :
        \A i, j \in 1..Len(s) : i # j => s[i] # s[j]}

InitTerminer ==
    /\ \E s \in Inscriptions :
          /\ dict_client_joueur = [i \in 1..Len(s) |-> [cle |-> s[i], valeur |-> rang(s[i])]]
          /\ liste_joueurs = [i \in 1..Len(s) |-> rang(s[i])]
          /\ joueurs = [j \in {rang(c) : c \in Range(s)} |->
                           Joueur(Identifiants[j], nom_joueur(j))]
          /\ vainqueur \in {0} \cup {rang(c) : c \in Range(s)}
    /\ mode \in {jeu_en_cours, fin_de_partie}
    /\ vainqueur # 0 => mode = fin_de_partie
    /\ grille = grille_de(Carte)
    /\ departs \in departs_possibles(determiner_bandes(grille_de(Carte), sorties_de(Carte)))
    /\ joueur_courant = 0
    /\ datagrammes = <<>>
    /\ pc = "fin"
    /\ connexion_autorisee = FALSE
    /\ connexion = [c \in Clients |-> "attendue"]
    /\ issue = ""
    /\ retour = 0
    /\ erreur = ""
    /\ emetteur_courant = ""
    /\ expedies = <<>>
    /\ acceptees = <<>>
    /\ tirages = <<>>
    /\ etat_verifie = <<>>
    /\ exception_levee = sans_verdict
    /\ messages = <<>>
    /\ verrou = "libre"
    /\ dormeurs = {}
    /\ fil = <<>>
    /\ a_envoyer = <<>>
    /\ envoyes = <<>>
    /\ recus = <<>>
    /\ receptions = <<>>
    /\ compteur = 1
    /\ nom_attribue = <<>>
    /\ saisie_client = <<>>
    /\ commandes_extraites = <<>>
    /\ carte_lue = <<>>
    /\ departs_determines = <<>>
    /\ schema_parametre = FALSE
    /\ validation_schema = ""
    /\ validation_erreur = ""
    /\ mode_validateur = 1
    /\ valide = "non_lie"
    /\ transmis = <<>>
    /\ imprimes = <<>>
    /\ traitees = <<>>
    /\ etat_client = "boucle"
    /\ iterations = 0
    /\ en_attente = 0
    /\ effaces = {}

NextTerminer == terminer \/ arreter

SpecTerminer == InitTerminer /\ [][NextTerminer]_vars

\* the datagrams terminer() has just added, and those of them that go to c
ajoutes_par_terminer == SubSeq(datagrammes', Len(datagrammes) + 1, Len(datagrammes'))
pour(c) == SelectSeq(ajoutes_par_terminer, LAMBDA d : d[1] = c)
inscrits == {dict_client_joueur[i].cle : i \in 1..Len(dict_client_joueur)}
inscription(c) == CHOOSE i \in 1..Len(dict_client_joueur) : dict_client_joueur[i].cle = c

(***************************************************************************)
(* C30: terminer() gives every client of the dict a last announcement that *)
(* names the winner ("you won" to the winner, the name of the winner to    *)
(* the others, or that nobody won when there is no winner), then 'fin' and *)
(* nothing after it; a client that is not in the dict gets nothing.        *)
(***************************************************************************)
C30_enonce ==
    [][(pc = "fin" /\ pc' = "envoi_fin")
          => \A c \in Clients :
                 IF c \in inscrits
                 THEN /\ Len(pour(c)) = 2
                      /\ pour(c)[1][2] = "affichage"
                      /\ vainqueur = dict_client_joueur[inscription(c)].valeur
                            => pour(c)[1][3] = <<"Vous avez gagne la partie !">>
                      /\ (vainqueur # 0 /\ vainqueur # dict_client_joueur[inscription(c)].valeur)
                            => pour(c)[1][3] = <<joueurs[vainqueur].nom, " a gagne la partie !">>
                      /\ pour(c)[2][2] = "fin"
                 ELSE pour(c) = <<>>]_vars
\* C30 as the code has it: without a winner nothing is announced, a client of
\* the dict gets 'fin' alone
C30_annonce_du_vainqueur ==
    [][(pc = "fin" /\ pc' = "envoi_fin")
          => \A c \in Clients :
                 IF c \in inscrits
                 THEN pour(c) =
                        (IF vainqueur = dict_client_joueur[inscription(c)].valeur
                         THEN << <<c, "affichage", <<"Vous avez gagne la partie !">> >> >>
                         ELSE IF vainqueur # 0
                         THEN << <<c, "affichage", <<joueurs[vainqueur].nom, " a gagne la partie !">> >> >>
                         ELSE <<>>)
                        \o << <<c, "fin", <<"None">> >> >>
                 ELSE pour(c) = <<>>]_vars
\* terminer() has been called for two players with no winner
C30_temoin ==
    /\ pc = "envoi_fin"
    /\ vainqueur = 0
    /\ cles(dict_client_joueur) = {"c1", "c2"}
    /\ Len(datagrammes) = 2
    /\ \A i \in 1..2 : datagrammes[i][2] = "fin"

(***************************************************************************)
(* client.py: the main loop of the client, and ValidateurTexte of          *)
(* lib/interface_client.py. InterfaceClient hands it ('saisie', text) with *)
(* the text in upper case, InterfaceServeur what the server sent.          *)
(***************************************************************************)
\* the two schemas the server sends: serveur.py:142 and labyrinthe.py:377
schema_commencer == "[C]"
schema_controle == "validation_controle"
\* variant: re.match, the beginning of the input is enough
correspond_au_debut(schema, saisie) ==
    IF schema = schema_commencer THEN saisie # <<>> /\ saisie[1] = touche_commencer[1]
    ELSE /\ saisie # <<>>
         /\ \/ saisie[1] \in Range(touches_mouvement)
            \/ /\ saisie[1] \in Range(touches_transformation)
               /\ Len(saisie) >= 2
               /\ saisie[2] \in Range(touches_mouvement)
\* validation_controle matched from the first character to the last
RECURSIVE suite_de_controles(_)
suite_de_controles(saisie) ==
    IF saisie = <<>> THEN TRUE
    ELSE IF saisie[1] \in Range(touches_mouvement)
    THEN suite_de_controles(SubSeq(saisie, 2 + Len(prefixe_chiffres(Tail(saisie))), Len(saisie)))
    ELSE IF /\ saisie[1] \in Range(touches_transformation)
            /\ Len(saisie) >= 2
            /\ saisie[2] \in Range(touches_mouvement)
    THEN suite_de_controles(SubSeq(saisie, 3, Len(saisie)))
    ELSE FALSE
\* validation_schema.fullmatch(saisie)
fullmatch(schema, saisie) ==
    IF schema = schema_commencer THEN saisie = touche_commencer
    ELSE saisie # <<>> /\ suite_de_controles(saisie)
\* Quitter.touche
touche_quitter == "Q"
\* what the user may type, in upper case as InterfaceClient.run leaves it
SaisiesClavier ==
    {<<"C">>, <<"N">>, <<"N", "2">>, <<"N", "?">>, <<"M", "O">>, <<"C", "Q">>, <<"Q">>, <<>>}
\* what Messagerie.obtenir() may give to the main loop
EnveloppesClient ==
    {[categorie |-> "affichage", message |-> <<"texte">>],
     [categorie |-> "erreur", message |-> <<"erreur">>],
     [categorie |-> "validation_schema", message |-> <<schema_commencer>>],
     [categorie |-> "validation_schema", message |-> <<schema_controle>>],
     [categorie |-> "validation_erreur", message |-> <<"Erreur dans la saisie.">>],
     [categorie |-> "fin", message |-> <<"None">>],
     [categorie |-> "inconnue", message |-> <<"None">>]}
    \cup {[categorie |-> "saisie", message |-> s] : s \in SaisiesClavier}
\* ValidateurTexte(saisie): "Quitter", "ValidationErreur", or the instance,
\* "vrai" or "faux" as bool() sees it
ValidateurTexte(saisie) ==
    IF touche_quitter \in Range(saisie) THEN "Quitter"
    ELSE IF mode_validateur = jeu_en_cours
    THEN IF ~schema_parametre THEN "ValidationErreur"
         ELSE IF fullmatch(validation_schema, saisie) THEN "vrai" ELSE "faux"
    ELSE "faux"

InitClient ==
    /\ mode = debut_de_partie
    /\ grille = grille_de(Carte)
    /\ departs = <<>>
    /\ dict_client_joueur = <<>>
    /\ liste_joueurs = <<>>
    /\ joueurs = <<>>
    /\ joueur_courant = 0
    /\ vainqueur = 0
    /\ datagrammes = <<>>
    /\ pc = "attente"
    /\ connexion_autorisee = FALSE
    /\ connexion = [c \in Clients |-> "attendue"]
    /\ issue = ""
    /\ retour = 0
    /\ erreur = ""
    /\ emetteur_courant = ""
    /\ expedies = <<>>
    /\ acceptees = <<>>
    /\ tirages = <<>>
    /\ etat_verifie = <<>>
    /\ exception_levee = sans_verdict
    /\ messages = <<>>
    /\ verrou = "libre"
    /\ dormeurs = {}
    /\ fil = <<>>
    /\ a_envoyer = <<>>
    /\ envoyes = <<>>
    /\ recus = <<>>
    /\ receptions = <<>>
    /\ compteur = 1
    /\ nom_attribue = <<>>
    /\ saisie_client = <<>>
    /\ commandes_extraites = <<>>
    /\ carte_lue = <<>>
    /\ departs_determines = <<>>
    /\ schema_parametre = FALSE
    /\ validation_schema = ""
    /\ validation_erreur = ""
    /\ mode_validateur = jeu_en_cours
    /\ valide = "non_lie"
    /\ transmis = <<>>
    /\ imprimes = <<>>
    /\ traitees = <<>>
    /\ etat_client = "boucle"
    /\ iterations = 0
    /\ en_attente = 0
    /\ effaces = {}

hors_client == <<plateau, serveur, regles, messagerie, ecoute, noms, extraction, cartographie,
                 boucle, remises>>
\* categorie, message = Messagerie.obtenir()
obtenue(e) ==
    /\ etat_client = "boucle"
    /\ Len(traitees) < MaxEnveloppes
    /\ traitees' = Append(traitees, e)

\* 'affichage': print(message)
client_affichage(e) ==
    /\ e.categorie = "affichage"
    /\ obtenue(e)
    /\ imprimes' = Append(imprimes, e.message[1])
    /\ UNCHANGED <<schema_parametre, validation_schema, validation_erreur, mode_validateur,
                   valide, transmis, etat_client, hors_client, boucle, remises>>
\* 'erreur': print(message), break
client_erreur(e) ==
    /\ e.categorie = "erreur"
    /\ obtenue(e)
    /\ imprimes' = Append(imprimes, e.message[1])
    /\ etat_client' = "sorti"
    /\ UNCHANGED <<schema_parametre, validation_schema, validation_erreur, mode_validateur,
                   valide, transmis, hors_client, boucle, remises>>
\* 'validation_schema', 'validation_erreur': ValidateurTexte.parametrer
client_parametrer(e) ==
    /\ e.categorie \in {"validation_schema", "validation_erreur"}
    /\ obtenue(e)
    /\ IF e.categorie = "validation_schema"
       THEN /\ validation_schema' = e.message[1]
            /\ schema_parametre' = TRUE
            /\ UNCHANGED validation_erreur
       ELSE /\ validation_erreur' = e.message[1]
            /\ UNCHANGED <<validation_schema, schema_parametre>>
    /\ UNCHANGED <<mode_validateur, valide, transmis, imprimes, etat_client, hors_client, boucle, remises>>
\* 'saisie': valide = ValidateurTexte(message), then the test of valide
client_saisie(e) ==
    /\ e.categorie = "saisie"
    /\ obtenue(e)
    /\ LET resultat == ValidateurTexte(e.message)
           \* what print(e) of the except clause leaves
           apres_except == IF resultat = "ValidationErreur" /\ mode_validateur = jeu_en_cours
                           THEN Append(imprimes, "Aucun schema de validation recu du serveur")
                           ELSE imprimes
           lie == IF resultat \in {"vrai", "faux"} THEN resultat ELSE valide
       IN  IF resultat = "Quitter"
           THEN /\ etat_client' = "sorti"
                /\ UNCHANGED <<valide, transmis, imprimes>>
           ELSE /\ valide' = lie
                /\ IF mode_validateur # jeu_en_cours
                   THEN UNCHANGED <<transmis, etat_client>> /\ imprimes' = apres_except
                   ELSE CASE lie = "non_lie" ->
                               \* NameError: name 'valide' is not defined
                               /\ etat_client' = "plante"
                               /\ imprimes' = apres_except
                               /\ UNCHANGED transmis
                          [] lie = "vrai" ->
                               /\ transmis' = Append(transmis, <<"commande", e.message>>)
                               /\ imprimes' = apres_except
                               /\ UNCHANGED etat_client
                          [] OTHER ->
                               /\ imprimes' = Append(apres_except, validation_erreur)
                               /\ UNCHANGED <<transmis, etat_client>>
    /\ UNCHANGED <<schema_parametre, validation_schema, validation_erreur, mode_validateur,
                   hors_client, boucle, remises>>
\* 'fin': ValidateurTexte.mode = fin_de_partie
client_fin(e) ==
    /\ e.categorie = "fin"
    /\ obtenue(e)
    /\ mode_validateur' = fin_de_partie
    /\ imprimes' = Append(imprimes, "Tapez Q pour quitter")
    /\ UNCHANGED <<schema_parametre, validation_schema, validation_erreur, valide, transmis,
                   etat_client, hors_client, boucle, remises>>
\* any other category: no branch of the loop takes it
client_autre(e) ==
    /\ e.categorie = "inconnue"
    /\ obtenue(e)
    /\ UNCHANGED <<schema_parametre, validation_schema, validation_erreur, mode_validateur,
                   valide, transmis, imprimes, etat_client, hors_client, boucle, remises>>

\* except KeyboardInterrupt: break, while the loop waits in obtenir(): no
\* envelope is taken and nothing is printed
client_interruption ==
    /\ etat_client = "boucle"
    /\ etat_client' = "sorti"
    /\ UNCHANGED <<schema_parametre, validation_schema, validation_erreur, mode_validateur,
                   valide, transmis, imprimes, traitees, hors_client>>
\* ValidateurTexte.effacer(): the compiled schema stays, the rest is as at
\* the beginning
validateur_effacer ==
    /\ schema_parametre' = FALSE
    /\ validation_erreur' = ""
    /\ mode_validateur' = jeu_en_cours
    /\ effaces' = effaces \cup {"ValidateurTexte"}
    /\ UNCHANGED <<validation_schema, valide, transmis, imprimes, traitees, etat_client>>
    /\ UNCHANGED <<plateau, serveur, regles, messagerie, ecoute, noms, extraction,
                   cartographie, boucle>>

NextClient ==
    \/ \E e \in EnveloppesClient :
          \/ client_affichage(e)
          \/ client_erreur(e)
          \/ client_parametrer(e)
          \/ client_saisie(e)
          \/ client_fin(e)
          \/ client_autre(e)
    \/ client_interruption
    \/ validateur_effacer

SpecClient == InitClient /\ [][NextClient]_vars

\* the schemas received so far, in order; whether 'fin' was received
schemas_recus(t) == SelectSeq(t, LAMBDA e : e.categorie = "validation_schema")
fin_recue(t) == \E i \in 1..Len(t) : t[i].categorie = "fin"
\* the input matches the schema as a whole
conforme_au_schema(schema, s) ==
    IF schema = schema_commencer THEN Len(s) = 1 /\ s[1] = "C" ELSE conforme(s)
saisie_prise == traitees' # traitees /\ traitees'[Len(traitees')].categorie = "saisie"
texte_pris == traitees'[Len(traitees')].message

(***************************************************************************)
(* C31: the client sends an input of the user to the server as a command   *)
(* only if the input matches as a whole the validation schema it received  *)
(* last from the server and it has not received 'fin'; an input that holds *)
(* the quit key is never sent; an input typed before any schema came is    *)
(* refused with a validation error and is not sent.  The client is the     *)
(* program client.py, in which nobody calls ValidateurTexte.effacer().     *)
(***************************************************************************)
C31_saisie_transmise ==
    [][/\ ("ValidateurTexte" \notin effaces /\ transmis' # transmis) =>
             /\ saisie_prise
             /\ transmis' = Append(transmis, <<"commande", texte_pris>>)
             /\ schemas_recus(traitees) # <<>>
             /\ conforme_au_schema(schemas_recus(traitees)[Len(schemas_recus(traitees))].message[1],
                                   texte_pris)
             /\ ~fin_recue(traitees)
       /\ (saisie_prise /\ touche_quitter \in Range(texte_pris)) => transmis' = transmis
       /\ (saisie_prise /\ touche_quitter \notin Range(texte_pris)
             /\ schemas_recus(traitees) = <<>> /\ ~fin_recue(traitees))
             => /\ transmis' = transmis
                /\ Len(imprimes') > Len(imprimes)
                /\ imprimes'[Len(imprimes) + 1] = "Aucun schema de validation recu du serveur"]_vars
\* the schema of the lobby, then the schema of the game, then N2 is sent
C31_temoin ==
    /\ "ValidateurTexte" \notin effaces
    /\ Len(traitees) = 4
    /\ traitees[1] = [categorie |-> "validation_schema", message |-> <<schema_commencer>>]
    /\ traitees[2] = [categorie |-> "saisie", message |-> <<"N">>]
    /\ traitees[3] = [categorie |-> "validation_schema", message |-> <<schema_controle>>]
    /\ traitees[4] = [categorie |-> "saisie", message |-> <<"N", "2">>]
    /\ transmis = << <<"commande", <<"N", "2">> >> >>

\* the players that a step keeps, and those of them whose commands it changes
gardes == DOMAIN joueurs \cap DOMAIN joueurs'
files_changees == {j \in gardes : joueurs'[j].commandes # joueurs[j].commandes}

(***************************************************************************)
(* C32: the commands that wait for a player are a queue: the commands      *)
(* extracted from one more input of the player go after those that wait,   *)
(* jouer() takes them one at a time from the head, in the order they were  *)
(* given; the command of a player never moves or removes a command of      *)
(* another player.                                                         *)
(***************************************************************************)
C32_file_de_commandes ==
    [][\A j \in files_changees :
          /\ files_changees = {j}
          /\ \/ /\ pc = "principale" /\ pc' = "jouer"
                /\ \E m \in Saisies :
                      /\ joueurs'[j].commandes = joueurs[j].commandes \o extraire(m)
                      /\ Len(datagrammes') = Len(datagrammes) + 1
                      /\ datagrammes'[Len(datagrammes')][1] = joueurs[j].identifiant_client
             \/ /\ dans_jouer /\ pc' = "jouer"
                /\ j = liste_joueurs[1]
                /\ joueurs[j].commandes # <<>>
                /\ joueurs'[j].commandes = Tail(joueurs[j].commandes)]_vars
\* two inputs of one player wait, in the order they came, while the player at
\* the head has not played
C32_temoin ==
    /\ mode = jeu_en_cours
    /\ pc = "principale"
    /\ \E j \in DOMAIN joueurs :
          /\ joueurs[j].commandes = << <<"E">>, <<"O">> >>
          /\ j # liste_joueurs[1]

\* where the players of the dict are
position(i) == joueurs[dict_client_joueur[i].valeur].coordonnees

(***************************************************************************)
(* C33: while the game is on (after demarrer(), whatever commands and      *)
(* departures follow), no two players of the dict are at the same          *)
(* coordinates.                                                            *)
(***************************************************************************)
C33_positions_distinctes ==
    mode = jeu_en_cours =>
        \A i, k \in 1..Len(dict_client_joueur) : i # k => position(i) # position(k)
\* two players side by side, one has just been refused the cell of the other
C33_temoin ==
    /\ mode = jeu_en_cours
    /\ pc = "jouer"
    /\ issue = "HorsRegles"
    /\ Len(dict_client_joueur) >= 2
    /\ \E i, k \in 1..Len(dict_client_joueur) :
          /\ position(i)[2] = position(k)[2]
          /\ position(i)[1] + 1 = position(k)[1]
          /\ dict_client_joueur[i].valeur = liste_joueurs[1]
    /\ \E j \in DOMAIN acceptees : TRUE

(***************************************************************************)
(* The program again, on a map that has a door, the clients sending one    *)
(* more command: to wall up what is to the west.                           *)
(***************************************************************************)
\* an exit, two start positions and a door
CartePortes == << <<"U", " ", " ", ".">> >>
SaisiesMurer == SaisiesPercer \cup {<<"M", "O">>}
InitPortes ==
    /\ mode = debut_de_partie
    /\ grille = grille_de(CartePortes)
    /\ departs \in departs_possibles(determiner_bandes(grille_de(CartePortes), sorties_de(CartePortes)))
    /\ dict_client_joueur = <<>>
    /\ liste_joueurs = <<>>
    /\ joueurs = <<>>
    /\ joueur_courant = 0
    /\ vainqueur = 0
    /\ datagrammes = <<>>
    /\ pc = "attente"
    /\ connexion_autorisee = (0 < Len(departs))
    /\ connexion = [c \in Clients |-> "attendue"]
    /\ issue = ""
    /\ retour = 0
    /\ erreur = ""
    /\ emetteur_courant = ""
    /\ expedies = <<>>
    /\ acceptees = <<>>
    /\ tirages = <<>>
    /\ etat_verifie = <<>>
    /\ exception_levee = sans_verdict
    /\ messages = <<>>
    /\ verrou = "libre"
    /\ dormeurs = {}
    /\ fil = <<>>
    /\ a_envoyer = <<>>
    /\ envoyes = <<>>
    /\ recus = <<>>
    /\ receptions = <<>>
    /\ compteur = 1
    /\ nom_attribue = [c \in Clients |-> ""]
    /\ saisie_client = <<>>
    /\ commandes_extraites = <<>>
    /\ carte_lue = <<>>
    /\ departs_determines = <<>>
    /\ schema_parametre = FALSE
    /\ validation_schema = ""
    /\ validation_erreur = ""
    /\ mode_validateur = 1
    /\ valide = "non_lie"
    /\ transmis = <<>>
    /\ imprimes = <<>>
    /\ traitees = <<>>
    /\ etat_client = "boucle"
    /\ iterations = 0
    /\ en_attente = 0
    /\ effaces = {}

NextPortes ==
    \/ \E c \in DeuxConnexions : accepter(c)
    \/ \E c \in DeuxConnexions : compter_suivant(c)
    \/ \E c \in DeuxConnexions : nommer(c)
    \/ \E c \in DeuxConnexions : informer(c)
    \/ \E c \in DeuxConnexions : attente_nouveau_joueur(c)
    \/ attente_envoyer
    \/ \E c \in DeuxConnexions : attente_quitte(c, TRUE)
    \/ \E c \in DeuxConnexions, m \in SaisiesMurer : attente_commande(c, m)
    \/ demarrage
    \/ \E c \in DeuxConnexions : principale_nouveau_joueur(c)
    \/ \E c \in DeuxConnexions : principale_quitte(c, TRUE)
    \/ \E c \in DeuxConnexions, m \in SaisiesMurer : principale_commande(c, m)
    \/ jouer_sortir
    \/ jouer_sans_commande
    \/ jouer_commande
    \/ principale_envoyer
    \/ terminer
    \/ arreter
SpecPortes == InitPortes /\ [][NextPortes]_vars

(***************************************************************************)
(* C34: while the game is on and once it is over, every player of the dict *)
(* is on a cell whose element (of the grid, or the default one) is         *)
(* Traversable: no move that is accepted puts a player on an element that  *)
(* is not, and no transformation that is accepted makes the element under  *)
(* a player one that is not.                                               *)
(***************************************************************************)
C34_positions_traversables ==
    mode \in {jeu_en_cours, fin_de_partie} =>
        \A i \in 1..Len(dict_client_joueur) : terrain_de(grille, position(i)) \in Traversable
\* a player stands on the door, and the player next to him has just been
\* refused to wall it up
C34_temoin ==
    /\ mode = jeu_en_cours
    /\ pc = "jouer"
    /\ issue = "HorsRegles"
    /\ \E i, k \in 1..Len(dict_client_joueur) :
          /\ terrain_de(grille, position(i)) = "Porte"
          /\ position(k) = <<position(i)[1] + 1, position(i)[2]>>
          /\ dict_client_joueur[k].valeur = liste_joueurs[1]
          /\ datagrammes # <<>>
          /\ datagrammes[Len(datagrammes)] =
                 <<dict_client_joueur[k].cle, "affichage",
                   <<"Un joueur occupe deja ", "la porte", " !">> >>
(***************************************************************************)
(* serveur.py, first loop, with a client that sends the category           *)
(* 'nouveau_joueur' itself: RequestHandler.handle() hands over             *)
(* (self, *self.recevoir()) whatever the category (interface_serveur.py    *)
(* line 84), so the envelope reaches the 'nouveau_joueur' branch a second  *)
(* time for a connection that is open.                                     *)
(***************************************************************************)
attente_nouveau_joueur_repete(emetteur) ==
    /\ pc = "attente"
    /\ connexion[emetteur] = "ouverte"
    /\ ajouter_joueur(emetteur, nom_attribue[emetteur])
    /\ pc' = "envoi_attente"
    /\ UNCHANGED <<connexion_autorisee, connexion, issue>>
    /\ UNCHANGED <<acceptees, tirages, regles, messagerie, ecoute, noms, extraction, cartographie, client, boucle, remises>>
    /\ emetteur_courant' = emetteur
    /\ expedies' = <<>>

\* the inputs of the clients: the start key and one move
SaisiesEnveloppes == {touche_commencer, <<"O">>}
NextEnveloppes ==
    \/ \E c \in DeuxConnexions : accepter(c)
    \/ \E c \in DeuxConnexions : compter_suivant(c)
    \/ \E c \in DeuxConnexions : nommer(c)
    \/ \E c \in DeuxConnexions : informer(c)
    \/ \E c \in DeuxConnexions : attente_nouveau_joueur(c)
    \/ \E c \in DeuxConnexions : attente_nouveau_joueur_repete(c)
    \/ attente_envoyer
    \/ \E c \in DeuxConnexions, ferme \in BOOLEAN : attente_quitte(c, ferme)
    \/ \E c \in DeuxConnexions, m \in SaisiesEnveloppes : attente_commande(c, m)
    \/ demarrage
    \/ \E c \in DeuxConnexions : principale_nouveau_joueur(c)
    \/ \E c \in DeuxConnexions, ferme \in BOOLEAN : principale_quitte(c, ferme)
    \/ \E c \in DeuxConnexions, m \in SaisiesEnveloppes : principale_commande(c, m)
    \/ jouer_sortir
    \/ jouer_sans_commande
    \/ jouer_commande
    \/ principale_envoyer
    \/ terminer
    \/ arreter

SpecEnveloppes == Init /\ [][NextEnveloppes]_vars

\* the players of the turn order and of the roster, each counted once
une_fois(l) == \A i, j \in 1..Len(l) : l[i] = l[j] => i = j
memes_joueurs ==
    /\ Range(liste_joueurs) = valeurs(dict_client_joueur)
    /\ une_fois(liste_joueurs)
    /\ une_fois([i \in 1..Len(dict_client_joueur) |-> dict_client_joueur[i].valeur])

\* C35: between two operations of the board, the turn order and the roster
\* hold exactly the same players, each once, whatever the envelopes handed
\* over, a second 'nouveau_joueur' for a registered connection included.
C35_enonce == memes_joueurs

\* C36: whenever the main thread waits on the Messagerie while the game is
\* on, the player at the head of the turn order has no command waiting, also
\* right after the previous head player has left.
C36_enonce ==
    (pc = "principale" /\ mode = jeu_en_cours /\ liste_joueurs # <<>>)
        => joueurs[liste_joueurs[1]].commandes = <<>>

\* C37: the game begins only on the start key sent by a client that is in the
\* roster at that moment; a client that was refused or that has left cannot
\* begin it, and it never begins with an empty roster.
C37_enonce ==
    pc = "demarrage" => /\ emetteur_courant \in cles(dict_client_joueur)
                        /\ liste_joueurs # <<>>

\* the first loop has been left although every player had gone
C37_partie_sans_joueur == pc = "demarrage" /\ liste_joueurs = <<>>

(***************************************************************************)
(* lib/labyrinthe.py taken alone: a caller builds the Labyrinthe and calls *)
(* its operations in any order, fetching the datagrams one at a time, as   *)
(* many of them as it likes, between two calls.                            *)
(***************************************************************************)
InitPlateau ==
    /\ mode = debut_de_partie
    /\ grille = grille_de(CarteEtroite)
    /\ departs \in departs_possibles(determiner_bandes(grille_de(CarteEtroite), sorties_de(CarteEtroite)))
    /\ dict_client_joueur = <<>>
    /\ liste_joueurs = <<>>
    /\ joueurs = <<>>
    /\ joueur_courant = 0
    /\ vainqueur = 0
    /\ datagrammes = <<>>
    /\ pc = "appel"
    /\ connexion_autorisee = (0 < Len(departs))
    /\ connexion = [c \in Clients |-> "attendue"]
    /\ issue = ""
    /\ retour = 0
    /\ erreur = ""
    /\ emetteur_courant = ""
    /\ expedies = <<>>
    /\ acceptees = <<>>
    /\ tirages = <<>>
    /\ etat_verifie = <<>>
    /\ exception_levee = sans_verdict
    /\ messages = <<>>
    /\ verrou = "libre"
    /\ dormeurs = {}
    /\ fil = <<>>
    /\ a_envoyer = <<>>
    /\ envoyes = <<>>
    /\ recus = <<>>
    /\ receptions = <<>>
    /\ compteur = 1
    /\ nom_attribue = <<>>
    /\ saisie_client = <<>>
    /\ commandes_extraites = <<>>
    /\ carte_lue = <<>>
    /\ departs_determines = <<>>
    /\ schema_parametre = FALSE
    /\ validation_schema = ""
    /\ validation_erreur = ""
    /\ mode_validateur = 1
    /\ valide = "non_lie"
    /\ transmis = <<>>
    /\ imprimes = <<>>
    /\ traitees = <<>>
    /\ etat_client = "boucle"
    /\ iterations = 0
    /\ en_attente = 0
    /\ effaces = {}

\* len(self.datagrammes) at most when the caller calls the next operation
MaxRestants == 2
\* the caller calls an operation, whatever it has fetched of the datagrams
appelable == a_la_main /\ Len(datagrammes) <= MaxRestants
\* what is remembered of the call before is forgotten when the next one is made
sans_issue == issue' = "" /\ iterations' = 0 /\ en_attente' = 0

\* labyrinthe.ajouter_joueur(c, nom), also for a client that is registered;
\* emetteur_courant keeps the client of the call until the next call
appel_ajouter_joueur(c) ==
    /\ appelable
    /\ ajouter_joueur(c, nom_joueur(rang(c)))
    /\ pc' = "appel"
    /\ emetteur_courant' = c
    /\ sans_issue
    /\ tirages' = <<>>
    /\ UNCHANGED <<connexion_autorisee, connexion, acceptees, expedies>>
    /\ UNCHANGED <<regles, messagerie, ecoute, noms, extraction, cartographie, client, remises>>
\* labyrinthe.effacer_joueur(c)
appel_effacer_joueur(c) ==
    /\ appelable
    /\ effacer_joueur(c)
    /\ pc' = "appel"
    /\ emetteur_courant' = ""
    /\ sans_issue
    /\ tirages' = <<>>
    /\ acceptees' = IF c \in cles(dict_client_joueur)
                    THEN oublier(acceptees, joueur_de(dict_client_joueur, c))
                    ELSE acceptees
    /\ UNCHANGED <<connexion_autorisee, connexion, expedies>>
    /\ UNCHANGED <<regles, messagerie, ecoute, noms, extraction, cartographie, client, remises>>
\* labyrinthe.demarrer(), in whatever mode the board is; the turn order is
\* drawn anew, and the record of who played since whom begins anew with it
appel_demarrer ==
    /\ appelable
    /\ demarrer
    /\ pc' = "appel"
    /\ emetteur_courant' = ""
    /\ sans_issue
    /\ acceptees' = <<>>
    /\ UNCHANGED <<connexion_autorisee, connexion, expedies>>
    /\ UNCHANGED <<regles, messagerie, ecoute, noms, extraction, cartographie, client, remises>>
\* labyrinthe.ajouter_commande(c, m)
appel_ajouter_commande(c, m) ==
    /\ appelable
    /\ ajouter_commande(c, m)
    /\ a_portee(joueurs')
    /\ pc' = "appel"
    /\ emetteur_courant' = ""
    /\ sans_issue
    /\ tirages' = <<>>
    /\ UNCHANGED <<connexion_autorisee, connexion, acceptees, expedies>>
    /\ UNCHANGED <<regles, messagerie, ecoute, noms, extraction, cartographie, client, remises>>
\* labyrinthe.jouer(): the call begins; it returns at pc = "envoi_principale"
appel_jouer ==
    /\ appelable
    /\ pc' = "jouer"
    /\ emetteur_courant' = ""
    /\ issue' = ""
    /\ tirages' = <<>>
    /\ UNCHANGED <<plateau, connexion_autorisee, connexion, retour, erreur, acceptees, expedies>>
    /\ UNCHANGED <<regles, messagerie, ecoute, noms, extraction, cartographie, client>>
    /\ UNCHANGED remises
    /\ iterations' = 0
    /\ en_attente' = en_attente_de(joueurs)
\* next() on labyrinthe.get_datagrammes(): the generator takes the datagram at
\* the head of the list, yields it and hands control back to its caller, who
\* goes on with the loop, leaves it, or calls the board before the next one;
\* on the empty list the generator ends and nothing changes
appel_get_datagrammes ==
    /\ a_la_main
    /\ datagrammes # <<>>
    /\ datagrammes' = Tail(datagrammes)
    /\ pc' = "appel"
    /\ emetteur_courant' = ""
    /\ sans_issue
    /\ tirages' = <<>>
    /\ UNCHANGED <<mode, grille, departs, dict_client_joueur, liste_joueurs, joueurs,
                   joueur_courant, vainqueur, connexion_autorisee, connexion, retour, erreur,
                   acceptees, expedies>>
    /\ UNCHANGED <<regles, messagerie, ecoute, noms, extraction, cartographie, client>>
    /\ UNCHANGED remises

\* labyrinthe.terminer()
appel_terminer ==
    /\ appelable
    /\ datagrammes' = datagrammes \o annoncer(dict_client_joueur, vainqueur, joueurs)
    /\ pc' = "appel"
    /\ emetteur_courant' = ""
    /\ sans_issue
    /\ tirages' = <<>>
    /\ UNCHANGED <<mode, grille, departs, dict_client_joueur, liste_joueurs, joueurs,
                   joueur_courant, vainqueur, connexion_autorisee, connexion,
                   retour, erreur, acceptees, expedies>>
    /\ UNCHANGED <<regles, messagerie, ecoute, noms, extraction, cartographie, client, remises>>
\* labyrinthe.afficher_plateau()
appel_afficher_plateau ==
    /\ appelable
    /\ datagrammes' = datagrammes \o afficher_plateau(dict_client_joueur)
    /\ pc' = "appel"
    /\ emetteur_courant' = ""
    /\ sans_issue
    /\ tirages' = <<>>
    /\ UNCHANGED <<mode, grille, departs, dict_client_joueur, liste_joueurs, joueurs,
                   joueur_courant, vainqueur, connexion_autorisee, connexion,
                   retour, erreur, acceptees, expedies>>
    /\ UNCHANGED <<regles, messagerie, ecoute, noms, extraction, cartographie, client, remises>>
\* labyrinthe.a_qui_de_jouer()
appel_a_qui_de_jouer ==
    /\ appelable
    /\ datagrammes' = datagrammes
           \o a_qui_de_jouer(mode, dict_client_joueur, liste_joueurs, joueurs)
    /\ pc' = "appel"
    /\ emetteur_courant' = ""
    /\ sans_issue
    /\ tirages' = <<>>
    /\ UNCHANGED <<mode, grille, departs, dict_client_joueur, liste_joueurs, joueurs,
                   joueur_courant, vainqueur, connexion_autorisee, connexion,
                   retour, erreur, acceptees, expedies>>
    /\ UNCHANGED <<regles, messagerie, ecoute, noms, extraction, cartographie, client, remises>>

\* the inputs of the callers: a move towards the exit and one away from it
SaisiesPlateau == {<<"O">>, <<"E">>}
\* the clients the callers register
NextPlateau ==
    \/ \E c \in DeuxConnexions : appel_ajouter_joueur(c)
    \/ \E c \in DeuxConnexions : appel_effacer_joueur(c)
    \/ appel_demarrer
    \/ \E c \in DeuxConnexions, m \in SaisiesPlateau : appel_ajouter_commande(c, m)
    \/ appel_jouer
    \/ jouer_sortir
    \/ jouer_sans_commande
    \/ jouer_commande
    \/ jouer_sans_joueur
    \/ appel_get_datagrammes
    \/ appel_terminer
    \/ appel_afficher_plateau
    \/ appel_a_qui_de_jouer

SpecPlateau == InitPlateau /\ [][NextPlateau]_vars

\* C38: once the game is over the winner stays who he is: no later call of
\* effacer_joueur, ajouter_joueur, ajouter_commande or jouer sets or
\* replaces vainqueur.
C38_enonce == [][mode = fin_de_partie => vainqueur' = vainqueur]_vars

\* C39: a call of jouer() ends: each turn of its loop either leaves the loop
\* or takes exactly one waiting command, so that the loop turns at most once
\* more than there were commands waiting, whoever the players and whatever
\* their commands; and during the game the turn order is not empty when the
\* main thread calls jouer().
C39_jouer_termine ==
    /\ iterations <= en_attente + 1
    /\ pc = "jouer" => en_attente_de(joueurs) = en_attente - iterations
    /\ (pc = "jouer" /\ mode = jeu_en_cours) => liste_joueurs # <<>>
\* the loop has turned once more than there were commands: two commands were
\* taken, the third turn found none and left the loop
C39_temoin ==
    /\ pc = "envoi_principale"
    /\ issue = "sans_commande"
    /\ en_attente = MaxCommandes
    /\ iterations = en_attente + 1
    /\ Len(liste_joueurs) > 1

\* every command a player can give: a movement, or a transformation and the
\* direction in which it is done
ToutesCommandes ==
    {<<touches_mouvement[i]>> : i \in 1..Len(touches_mouvement)}
    \cup {<<touches_transformation[k], touches_mouvement[i]>> :
             k \in 1..Len(touches_transformation), i \in 1..Len(touches_mouvement)}
\* the Etat jouer() makes for the player at the head when he plays commande
instantane_de(commande) ==
    LET courant == liste_joueurs[1]
        controle == obtenir_controle(commande)
        adversaires == [i \in 1..(Len(liste_joueurs) - 1) |->
                           joueurs[liste_joueurs[i + 1]].coordonnees]
    IN  Etat(controle[1], controle[2], grille, joueurs[courant], adversaires)
\* what verifier_regles may raise, over the orders in which the set is run
sortes(etat) == {resultat.exception : resultat \in verifier_regles(etat)}

\* C40: while the game is on, whatever the command of the player whose turn
\* it is, verifier_regles ends the same way (nothing raised, HorsRegles or
\* PartieGagnee) in every order in which the rules of the set are run.
C40_sorte_independante ==
    (mode = jeu_en_cours /\ liste_joueurs # <<>>)
        => \A commande \in ToutesCommandes : Cardinality(sortes(instantane_de(commande))) = 1
\* the player at the head stands next to an opponent and next to the exit:
\* more than one rule of the set raises for some command (the wall: two
\* rules of a transformation), and a command that wins is at hand
C40_temoin ==
    /\ mode = jeu_en_cours
    /\ pc = "jouer"
    /\ Len(liste_joueurs) > 1
    /\ sortes(instantane_de(<<"O">>)) = {"PartieGagnee"}
    /\ sortes(instantane_de(<<"E">>)) = {"HorsRegles"}
    /\ rencontrer_un_adversaire(instantane_de(<<"E">>)) # Passe
    /\ joueurs[liste_joueurs[1]].commandes # <<>>


====
